---- MODULE Spec2Model ----
(***************************************************************************)
(* A model of the xmlang compiler: lexer, recursive-descent parser (the    *)
(* xmlc and the xmlang dialects), code generator and assembler.            *)
(*                                                                         *)
(* Text is modelled by TLA+ strings; a character is a string of length 1   *)
(* and positions are 0-based as in the C++ source.                         *)
(***************************************************************************)
EXTENDS Integers, Sequences, FiniteSets, TLC

\* a local variable that is initialised once (auto x = ...; auto x = TRY(...)):
\* With([x \in {v} |-> e]) is e with x standing for the value v
With(f) == f[CHOOSE x \in DOMAIN f : TRUE]

(***************************************************************************)
(* std::string helpers                                                     *)
(***************************************************************************)

\* s.at(i) / s[i], 0-based
at(s, i) == SubSeq(s, i + 1, i + 1)

\* s.substr(pos) and s.substr(pos, n), 0-based, clamped at the end like std::string
substr(s, pos) == SubSeq(s, pos + 1, Len(s))

substr_n(s, pos, n) == SubSeq(s, pos + 1, IF pos + n > Len(s) THEN Len(s) ELSE pos + n)

starts_with(s, p) == Len(s) >= Len(p) /\ SubSeq(s, 1, Len(p)) = p

ends_with(s, p) == Len(s) >= Len(p) /\ SubSeq(s, Len(s) - Len(p) + 1, Len(s)) = p

Lower == "abcdefghijklmnopqrstuvwxyz"

Upper == "ABCDEFGHIJKLMNOPQRSTUVWXYZ"

Digits == "0123456789"

\* the printable ASCII characters of codes 32 (space) to 95, and of codes 97 to 126
PrintableLow == " !\"#$%&'()*+,-./0123456789:;<=>?@ABCDEFGHIJKLMNOPQRSTUVWXYZ[\\]^_"

PrintableHigh == "abcdefghijklmnopqrstuvwxyz{|}~"

\* index (0-based) of character c in s, or Len(s) when absent (std::string::npos)
RECURSIVE find_from(_, _, _)
find_from(s, c, i) ==
    IF i >= Len(s) THEN Len(s)
    ELSE IF at(s, i) = c THEN i
    ELSE find_from(s, c, i + 1)

contains_char(s, c) == find_from(s, c, 0) < Len(s)

isalpha(c) == contains_char(Lower, c) \/ contains_char(Upper, c)

isdigit(c) == contains_char(Digits, c)

\* the byte value of a character
Ord(c) ==
    IF c = "\n" THEN 10
    ELSE IF contains_char(PrintableLow, c) THEN 32 + find_from(PrintableLow, c, 0)
    ELSE 97 + find_from(PrintableHigh, c, 0)

\* std::all_of(s.begin(), s.end(), ::isdigit): true of the empty string
all_digits(s) == \A i \in 0 .. Len(s) - 1 : isdigit(at(s, i))

\* the lines std::getline yields from a text: split at '\n', no line after a final '\n'
RECURSIVE next_line(_)
next_line(text) ==
    IF text = "" THEN <<>>
    ELSE LET n == find_from(text, "\n", 0)
         IN  IF n >= Len(text) THEN <<text>>
             ELSE <<substr_n(text, 0, n)>> \o next_line(substr(text, n + 1))

(***************************************************************************)
(* Lexer (xmlang/source/Lexer.cpp)                                         *)
(***************************************************************************)

KEYWORDS == {"arg", "call", "function", "let", "program", "return", "class", "new", "ctor", "dtor"}

\* the keyword set of the xmlc dialect
XMLC_KEYWORDS == {"arg", "call", "function", "let", "program", "return", "if", "else"}

Token(data, type, column, depth) ==
    [data |-> data, type |-> type, line |-> 0, column |-> column, depth |-> depth]

\* number of consecutive spaces of line from cursor on
RECURSIVE space_run(_, _)
space_run(line, cursor) ==
    IF cursor # Len(line) /\ at(line, cursor) = " " THEN 1 + space_run(line, cursor + 1) ELSE 0

\* the inner "while" of the three scanning branches: the index of the last
\* character of the run that starts at cursor and stops before a character of stops
RECURSIVE run_end(_, _, _)
run_end(line, cursor, stops) ==
    IF cursor + 1 >= Len(line) THEN cursor
    ELSE IF contains_char(stops, at(line, cursor + 1)) THEN cursor
    ELSE run_end(line, cursor + 1, stops)

\* one line's tokens.  out.threw records that line.at() was called with an
\* index equal to line.size() (std::out_of_range ends the generator).
RECURSIVE next_token_from(_, _, _, _, _)
next_token_from(line, keywords, cursor0, depth0, out) ==
    IF ~(cursor0 < Len(line)) THEN out
    ELSE
    LET space  == space_run(line, cursor0)
        cursor == cursor0 + space
        depth  == IF space % 4 = 0 THEN depth0 + space \div 4 ELSE depth0
        yield(o, t) == [o EXCEPT !.tokens = Append(@, t)]
    IN  IF cursor >= Len(line) THEN [out EXCEPT !.threw = TRUE]
        ELSE
        LET ch == at(line, cursor) IN
        IF ch = "<" THEN
            next_token_from(line, keywords, cursor + 1, depth, yield(out, Token(ch, "LEFT_ANGLE", cursor, depth)))
        ELSE IF ch = ">" THEN
            LET o1 == yield(out, Token(ch, "RIGHT_ANGLE", cursor, depth)) IN
            IF cursor + 1 >= Len(line) THEN [o1 EXCEPT !.threw = TRUE]
            ELSE IF ~(isalpha(at(line, cursor + 1)) \/ isdigit(at(line, cursor + 1))) THEN
                next_token_from(line, keywords, cursor + 1, depth, o1)
            ELSE
                LET e == run_end(line, cursor + 1, "<>")
                    data == SubSeq(line, cursor + 2, e + 1)
                IN  next_token_from(line, keywords, e + 1, depth, yield(o1, Token(data, "LITERAL", e, depth)))
        ELSE IF ch = "/" THEN
            next_token_from(line, keywords, cursor + 1, depth, yield(out, Token(ch, "SLASH", cursor, depth)))
        ELSE IF ch = "=" THEN
            next_token_from(line, keywords, cursor + 1, depth, yield(out, Token(ch, "EQUAL", cursor, depth)))
        ELSE IF ch = "\"" THEN
            LET o1 == yield(out, Token(ch, "QUOTE", cursor, depth)) IN
            IF cursor + 1 >= Len(line) THEN [o1 EXCEPT !.threw = TRUE]
            ELSE IF ~(isalpha(at(line, cursor + 1)) \/ contains_char("${}", at(line, cursor + 1))) THEN
                next_token_from(line, keywords, cursor + 1, depth, o1)
            ELSE
                LET e == run_end(line, cursor + 1, "\"")
                    data == SubSeq(line, cursor + 2, e + 1)
                IN  next_token_from(line, keywords, e + 1, depth, yield(o1, Token(data, "LITERAL", e, depth)))
        ELSE
            LET e == run_end(line, cursor, " =<>\"")
                data == SubSeq(line, cursor + 1, e + 1)
                type == IF data \in keywords THEN "KEYWORD" ELSE "IDENTIFIER"
            IN  next_token_from(line, keywords, e + 1, depth, yield(out, Token(data, type, e, depth)))

next_token(line, keywords) ==
    next_token_from(line, keywords, 0, 0, [tokens |-> <<>>, threw |-> FALSE])

\* the tokens left in source order
Reverse_of_nothing(s) == s

Reverse(s) == [i \in 1 .. Len(s) |-> s[Len(s) + 1 - i]]

\* tokenize: every line's tokens stamped with the line number, then END_OF_FILE, reversed.
\* lineNumber is a size_t: for a file without lines lineNumber-1 wraps to 2^64-1,
\* which is written -1 here (TLC's integers have 32 bits).
RECURSIVE tokenize_lines(_, _, _, _)
tokenize_lines(lines, keywords, lineNumber, acc) ==
    IF lines = <<>> THEN
        [tokens |-> Reverse(Append(acc.tokens,
                        [data |-> "EOF", type |-> "END_OF_FILE",
                         line |-> lineNumber - 1, column |-> 0, depth |-> 0])),
         threw |-> acc.threw]
    ELSE
        With([r \in {next_token(Head(lines), keywords)} |->
          With([stamped \in {[i \in 1 .. Len(r.tokens) |-> [r.tokens[i] EXCEPT !.line = lineNumber]]} |->
            tokenize_lines(Tail(lines), keywords, lineNumber + 1,
                           [tokens |-> acc.tokens \o stamped, threw |-> acc.threw \/ r.threw])])])

tokenize(text) == tokenize_lines(next_line(text), KEYWORDS, 0, [tokens |-> <<>>, threw |-> FALSE])

\* The lexer of the xmlc dialect: the same scanner with the keyword set and the
\* token kinds of xmlc/Lexer.hpp (PROPERTY for IDENTIFIER, DOUBLE_QUOTE for QUOTE).
xmlc_type(type) ==
    IF type = "IDENTIFIER" THEN "PROPERTY" ELSE IF type = "QUOTE" THEN "DOUBLE_QUOTE" ELSE type

xmlc_tokenize(text) ==
    With([r \in {tokenize_lines(next_line(text), XMLC_KEYWORDS, 0, [tokens |-> <<>>, threw |-> FALSE])} |->
      [tokens |-> [i \in 1 .. Len(r.tokens) |-> [r.tokens[i] EXCEPT !.type = xmlc_type(@)]],
       threw |-> r.threw]])


(***************************************************************************)
(* Parser of the xmlc dialect (xmlc/source/Parser.cpp)                     *)
(*                                                                         *)
(* A parser returns [st, cursor, diags, node]: st is "ok" (a value; node   *)
(* NullNode is the null pointer), "err" (make_error), "crash" (a failed    *)
(* assert or a null dereference), "range" (std::out_of_range thrown by     *)
(* tokens.at for an index outside the vector) or "diverge" (a scope loop   *)
(* that repeats an iteration without moving the cursor).                   *)
(***************************************************************************)

\* Token {} of a node that was synthesized
NoToken == [data |-> "", type |-> "LEFT_ANGLE", line |-> 0, column |-> 0, depth |-> 0]

NullNode == [kind |-> "Null"]

LiteralExpr(value) == [kind |-> "Literal", value |-> value]

Diag(severity, error, issues, message) ==
    [severity |-> severity, error |-> error, issues |-> issues, message |-> message]

Result(st, cursor, diags, node) == [st |-> st, cursor |-> cursor, diags |-> diags, node |-> node]

\* tokens.at(i) is defined for these i only
in_range(tokens, i) == i >= 0 /\ i < Len(tokens)

\* tokens.at(cursor - distance), for an index in range
peek(tokens, cursor, distance) == tokens[cursor - distance + 1]

expect(tokens, cursor, type) == ~(cursor = -1 \/ peek(tokens, cursor, 0).type # type)

expect_data(tokens, cursor, type, data) ==
    expect(tokens, cursor, type) /\ peek(tokens, cursor, 0).data = data

\* an advance that moves the cursor the other way
advance_forward(tokens, cursor) == [ok |-> TRUE, cursor |-> cursor + 1, token |-> peek(tokens, cursor, 0)]

\* advance(tokens, cursor): tokens.at(cursor--), for a cursor in range
advance(tokens, cursor) == [ok |-> TRUE, cursor |-> cursor - 1, token |-> peek(tokens, cursor, 0)]

\* advance(tokens, cursor, type): the token and the cursor after it, or not ok
advance_type(tokens, cursor, type) ==
    IF expect(tokens, cursor, type)
    THEN [ok |-> TRUE, cursor |-> cursor - 1, token |-> peek(tokens, cursor, 0)]
    ELSE [ok |-> FALSE, cursor |-> cursor, token |-> NoToken]

advance_type_data(tokens, cursor, type, data) ==
    IF expect_data(tokens, cursor, type, data)
    THEN [ok |-> TRUE, cursor |-> cursor - 1, token |-> peek(tokens, cursor, 0)]
    ELSE [ok |-> FALSE, cursor |-> cursor, token |-> NoToken]

\* emit_parser_error(error, {{ peek(tokens, cursor), message }}); return make_error({})
error_at(tokens, cursor, diags, error, message) ==
    IF ~in_range(tokens, cursor) THEN Result("range", cursor, diags, NullNode)
    ELSE Result("err", cursor, Append(diags, Diag("error", error, <<peek(tokens, cursor, 0)>>, message)), NullNode)

\* emit_parser_error(error, {{ token, message }}); return make_error({})
error_on(token, cursor, diags, error, message) ==
    Result("err", cursor, Append(diags, Diag("error", error, <<token>>, message)), NullNode)

is_next_statement(tokens, cursor) ==
    peek(tokens, cursor, 1).data \in {"let", "call", "arg", "return"}

is_next_declaration(tokens, cursor) == peek(tokens, cursor, 1).data = "function"

RECURSIVE synchronize(_, _, _)
synchronize(tokens, token, cursor) ==
    IF cursor > 2 /\
       ~( (peek(tokens, cursor, 0).type = "LEFT_ANGLE" /\ peek(tokens, cursor, 1).type = "KEYWORD" /\
           peek(tokens, cursor, 0).depth = token.depth + 1)
          \/ peek(tokens, cursor, 0).depth = token.depth )
    THEN synchronize(tokens, token, cursor - 1)
    ELSE cursor

parse_expression(tokens, cursor, diags) ==
    IF expect(tokens, cursor, "LITERAL")
    THEN Result("ok", cursor - 1, diags, LiteralExpr(peek(tokens, cursor, 0).data))
    ELSE IF expect(tokens, cursor, "KEYWORD")
    THEN Result("crash", cursor, diags, NullNode)
    ELSE Result("ok", cursor, diags, NullNode)

\* the properties loop of parse_opening_tag
RECURSIVE parse_properties(_, _, _, _)
parse_properties(tokens, cursor, diags, properties) ==
    IF ~(cursor > 1 /\ peek(tokens, cursor, 0).type # "RIGHT_ANGLE")
    THEN [st |-> "ok", cursor |-> cursor, diags |-> diags, properties |-> properties]
    ELSE
    With([propertyName \in {advance_type(tokens, cursor, "PROPERTY")} |->
      LET bad(r) == [st |-> r.st, cursor |-> r.cursor, diags |-> r.diags, properties |-> <<>>]
      IN  IF ~propertyName.ok
          THEN bad(error_at(tokens, cursor, diags, "UNEXPECTED_TOKEN_REACHED", "was found instead of a property"))
          ELSE
          With([equal \in {advance_type(tokens, propertyName.cursor, "EQUAL")} |->
            IF ~equal.ok
            THEN bad(error_at(tokens, equal.cursor, diags, "EXPECTED_TOKEN_MISSING", "was found instead of equals"))
            ELSE
            With([dq \in {advance_type(tokens, equal.cursor, "DOUBLE_QUOTE")} |->
              With([open \in {IF dq.ok THEN dq ELSE advance_type(tokens, equal.cursor, "SINGLE_QUOTE")} |->
                IF ~open.ok
                THEN bad(error_at(tokens, open.cursor, diags, "EXPECTED_TOKEN_MISSING", "was found instead of quotes"))
                ELSE
                With([propertyValue \in {parse_expression(tokens, open.cursor, diags)} |->
                  IF propertyValue.st # "ok" THEN bad(propertyValue)
                  ELSE
                  With([dq2 \in {advance_type(tokens, propertyValue.cursor, "DOUBLE_QUOTE")} |->
                    With([close \in {IF dq2.ok THEN dq2 ELSE advance_type(tokens, propertyValue.cursor, "SINGLE_QUOTE")} |->
                      IF ~close.ok
                      THEN bad(error_at(tokens, close.cursor, diags, "EXPECTED_TOKEN_MISSING", "was found instead of quotes"))
                      ELSE parse_properties(tokens, close.cursor, diags,
                                            Append(properties, [name |-> propertyName.token, value |-> propertyValue.node]))])])])])])])])

\* returns [st, cursor, diags, tag, properties]
parse_opening_tag(tokens, cursor, diags, name) ==
    LET bad(r) == [st |-> r.st, cursor |-> r.cursor, diags |-> r.diags, tag |-> NoToken, properties |-> <<>>]
    IN  With([left \in {advance_type(tokens, cursor, "LEFT_ANGLE")} |->
          IF ~left.ok
          THEN bad(error_at(tokens, cursor, diags, "UNEXPECTED_TOKEN_REACHED", "was found instead of a '<'"))
          ELSE
          With([tag \in {advance_type_data(tokens, left.cursor, "KEYWORD", name)} |->
            IF ~tag.ok
            THEN bad(error_at(tokens, tag.cursor, diags, "UNEXPECTED_TOKEN_REACHED", "was found instead of a tag"))
            ELSE
            With([props \in {parse_properties(tokens, tag.cursor, diags, <<>>)} |->
              IF props.st # "ok" THEN bad(props)
              ELSE
              With([right \in {advance_type(tokens, props.cursor, "RIGHT_ANGLE")} |->
                IF ~right.ok
                THEN bad(error_at(tokens, right.cursor, props.diags, "UNEXPECTED_TOKEN_REACHED", "was found instead of a '>'"))
                ELSE [st |-> "ok", cursor |-> right.cursor, diags |-> props.diags, tag |-> tag.token, properties |-> props.properties]])])])])

\* a closing tag that is accepted whatever its keyword
parse_closing_tag_of_any(tokens, cursor, diags, tag) ==
    With([left \in {advance_type(tokens, cursor, "LEFT_ANGLE")} |->
      IF ~left.ok
      THEN error_at(tokens, cursor, diags, "UNEXPECTED_TOKEN_REACHED", "was found instead of a '<'")
      ELSE
      With([slash \in {advance_type(tokens, left.cursor, "SLASH")} |->
        IF ~slash.ok
        THEN error_at(tokens, slash.cursor, diags, "UNEXPECTED_TOKEN_REACHED", "was found instead of a '/'")
        ELSE
        With([closing \in {advance_type(tokens, slash.cursor, "KEYWORD")} |->
          IF ~closing.ok
          THEN error_at(tokens, closing.cursor, diags, "UNEXPECTED_TOKEN_REACHED", "was found instead of a tag")
          ELSE
          With([right \in {advance_type(tokens, closing.cursor, "RIGHT_ANGLE")} |->
            IF ~right.ok
            THEN error_at(tokens, right.cursor, diags, "UNEXPECTED_TOKEN_REACHED", "was found instead of '>'")
            ELSE Result("ok", right.cursor, diags, NullNode)])])])])

parse_closing_tag(tokens, cursor, diags, tag) ==
    With([left \in {advance_type(tokens, cursor, "LEFT_ANGLE")} |->
      IF ~left.ok
      THEN error_at(tokens, cursor, diags, "UNEXPECTED_TOKEN_REACHED", "was found instead of a '<'")
      ELSE
      With([slash \in {advance_type(tokens, left.cursor, "SLASH")} |->
        IF ~slash.ok
        THEN error_at(tokens, slash.cursor, diags, "UNEXPECTED_TOKEN_REACHED", "was found instead of a '/'")
        ELSE
        With([closing \in {advance_type(tokens, slash.cursor, "KEYWORD")} |->
          IF ~closing.ok
          THEN error_at(tokens, closing.cursor, diags, "UNEXPECTED_TOKEN_REACHED", "was found instead of a tag")
          ELSE IF closing.token.data # tag.data
          THEN Result("err", closing.cursor,
                      Append(diags, Diag("error", "ENCLOSING_TOKEN_MISMATCH", <<tag, closing.token>>, "this tag")),
                      NullNode)
          ELSE
          With([right \in {advance_type(tokens, closing.cursor, "RIGHT_ANGLE")} |->
            IF ~right.ok
            THEN error_at(tokens, right.cursor, diags, "UNEXPECTED_TOKEN_REACHED", "was found instead of '>'")
            ELSE Result("ok", right.cursor, diags, NullNode)])])])])

\* std::ranges::find_if(properties, data == name): the 0-based position, Len when absent
RECURSIVE find_property_from(_, _, _)
find_property_from(properties, name, i) ==
    IF i >= Len(properties) THEN Len(properties)
    ELSE IF properties[i + 1].name.data = name THEN i
    ELSE find_property_from(properties, name, i + 1)

find_property(properties, name) == find_property_from(properties, name, 0)

\* a node parser's result after its closing tag: TRY(parse_closing_tag(...)); return node
closed(tokens, cursor, diags, tag, node) ==
    With([c \in {parse_closing_tag(tokens, cursor, diags, tag)} |->
      IF c.st # "ok" THEN c ELSE Result("ok", c.cursor, c.diags, node)])

\* a failed TRY(parse_opening_tag(...))
not_opened(o) == Result(o.st, o.cursor, o.diags, NullNode)

\* the value of a property (a LiteralExpr); a null value is dereferenced by the callers
has_literal(properties, i) == properties[i + 1].value # NullNode

literal_of(properties, i) == properties[i + 1].value.value

ArgStmt(token, value) == [kind |-> "Arg", token |-> token, value |-> value]

CallStmt(token, who, arguments) == [kind |-> "Call", token |-> token, who |-> who, arguments |-> arguments]

LetStmt(token, name, type, value) ==
    [kind |-> "Let", token |-> token, name |-> name, type |-> type, value |-> value]

RetStmt(token, type, value) == [kind |-> "Return", token |-> token, type |-> type, value |-> value]

FunctionDecl(token, name, type, parameters, scope) ==
    [kind |-> "Function", token |-> token, name |-> name, type |-> type,
     parameters |-> parameters, scope |-> scope]

ProgramDecl(token, scope) == [kind |-> "Program", token |-> token, scope |-> scope]

parse_arg(tokens, cursor, diags) ==
    With([o \in {parse_opening_tag(tokens, cursor, diags, "arg")} |->
      IF o.st # "ok" THEN not_opened(o)
      ELSE
      With([maybeValue \in {find_property(o.properties, "value")} |->
        IF maybeValue # Len(o.properties) /\ ~has_literal(o.properties, maybeValue)
        THEN Result("crash", o.cursor, o.diags, NullNode)
        ELSE IF maybeValue # Len(o.properties)
        THEN closed(tokens, o.cursor, o.diags, o.tag, ArgStmt(o.tag, o.properties[maybeValue + 1].value))
        ELSE
        With([value \in {parse_expression(tokens, o.cursor, o.diags)} |->
          IF value.st # "ok" THEN value
          ELSE IF value.node = NullNode
          THEN error_at(tokens, value.cursor, value.diags, "EXPECTED_TOKEN_MISSING", "was found instead of 'value' property")
          ELSE closed(tokens, value.cursor, value.diags, o.tag, ArgStmt(o.tag, value.node))])])])

\* the scope loop of parse_call
RECURSIVE parse_call_arguments(_, _, _, _, _)
parse_call_arguments(tokens, cursor, diags, tag, arguments) ==
    IF ~(cursor > 0 /\ peek(tokens, cursor, 0).depth > tag.depth)
    THEN [st |-> "ok", cursor |-> cursor, diags |-> diags, scope |-> arguments]
    ELSE
    With([argument \in {parse_arg(tokens, cursor, diags)} |->
      IF argument.st = "ok" /\ argument.node # NullNode
      THEN parse_call_arguments(tokens, argument.cursor, argument.diags, tag, Append(arguments, argument.node))
      ELSE IF argument.st = "err"
      THEN With([next \in {synchronize(tokens, tag, argument.cursor)} |->
             IF next = cursor
             THEN [st |-> "diverge", cursor |-> next, diags |-> argument.diags, scope |-> arguments]
             ELSE parse_call_arguments(tokens, next, argument.diags, tag, arguments)])
      ELSE [st |-> argument.st, cursor |-> argument.cursor, diags |-> argument.diags, scope |-> arguments]])

\* a call that takes a missing 'who' for the empty name
parse_call_of_nobody(tokens, cursor, diags) ==
    With([o \in {parse_opening_tag(tokens, cursor, diags, "call")} |->
      IF o.st # "ok" THEN not_opened(o)
      ELSE
      With([maybeWho \in {find_property(o.properties, "who")} |->
        IF maybeWho # Len(o.properties) /\ ~has_literal(o.properties, maybeWho)
        THEN Result("crash", o.cursor, o.diags, NullNode)
        ELSE
        With([args \in {parse_call_arguments(tokens, o.cursor, o.diags, o.tag, <<>>)} |->
          IF args.st # "ok" THEN Result(args.st, args.cursor, args.diags, NullNode)
          ELSE closed(tokens, args.cursor, args.diags, o.tag,
                      CallStmt(o.tag, IF maybeWho = Len(o.properties) THEN "" ELSE literal_of(o.properties, maybeWho),
                               args.scope))])])])

parse_call(tokens, cursor, diags) ==
    With([o \in {parse_opening_tag(tokens, cursor, diags, "call")} |->
      IF o.st # "ok" THEN not_opened(o)
      ELSE
      With([maybeWho \in {find_property(o.properties, "who")} |->
        IF maybeWho = Len(o.properties)
        THEN error_on(o.tag, o.cursor, o.diags, "EXPECTED_TOKEN_MISSING", "requires property 'who'")
        ELSE IF ~has_literal(o.properties, maybeWho)
        THEN Result("crash", o.cursor, o.diags, NullNode)
        ELSE
        With([args \in {parse_call_arguments(tokens, o.cursor, o.diags, o.tag, <<>>)} |->
          IF args.st # "ok" THEN Result(args.st, args.cursor, args.diags, NullNode)
          ELSE closed(tokens, args.cursor, args.diags, o.tag,
                      CallStmt(o.tag, literal_of(o.properties, maybeWho), args.scope))])])])

parse_let(tokens, cursor, diags) ==
    With([o \in {parse_opening_tag(tokens, cursor, diags, "let")} |->
      IF o.st # "ok" THEN not_opened(o)
      ELSE
      With([maybeName \in {find_property(o.properties, "name")} |->
        With([maybeType \in {find_property(o.properties, "type")} |->
          IF maybeName = Len(o.properties)
          THEN error_on(o.tag, o.cursor, o.diags, "EXPECTED_TOKEN_MISSING", "requires property 'name'")
          ELSE IF ~has_literal(o.properties, maybeName)
          THEN Result("crash", o.cursor, o.diags, NullNode)
          ELSE IF maybeType = Len(o.properties)
          THEN error_on(o.tag, o.cursor, o.diags, "EXPECTED_TOKEN_MISSING", "requires property 'type'")
          ELSE IF ~has_literal(o.properties, maybeType)
          THEN Result("crash", o.cursor, o.diags, NullNode)
          ELSE
          With([value \in {parse_expression(tokens, o.cursor, o.diags)} |->
            IF value.st # "ok" THEN value
            ELSE IF value.node = NullNode
            THEN error_at(tokens, value.cursor, value.diags, "EXPECTED_TOKEN_MISSING", "was found instead of property 'value'")
            ELSE closed(tokens, value.cursor, value.diags, o.tag,
                        LetStmt(o.tag, literal_of(o.properties, maybeName), literal_of(o.properties, maybeType), value.node))])])])])

parse_ret(tokens, cursor, diags) ==
    With([o \in {parse_opening_tag(tokens, cursor, diags, "return")} |->
      IF o.st # "ok" THEN not_opened(o)
      ELSE IF find_property(o.properties, "value") # Len(o.properties)
      THEN Result("crash", o.cursor, o.diags, NullNode)
      ELSE
      With([value \in {parse_expression(tokens, o.cursor, o.diags)} |->
        IF value.st # "ok" THEN value
        ELSE closed(tokens, value.cursor, value.diags, o.tag, RetStmt(o.tag, "", value.node))])])

\* parse_if: a tag without condition is an error, one with a condition is unimplemented
parse_if(tokens, cursor, diags) ==
    With([o \in {parse_opening_tag(tokens, cursor, diags, "if")} |->
      IF o.st # "ok" THEN not_opened(o)
      ELSE IF find_property(o.properties, "condition") = Len(o.properties)
      THEN error_on(o.tag, o.cursor, o.diags, "EXPECTED_TOKEN_MISSING", "requires property 'condition'")
      ELSE Result("crash", o.cursor, o.diags, NullNode)])

parse_statement(tokens, cursor, diags) ==
    LET next == peek(tokens, cursor, 1).data IN
    IF next = "let" THEN parse_let(tokens, cursor, diags)
    ELSE IF next = "call" THEN parse_call(tokens, cursor, diags)
    ELSE IF next = "return" THEN parse_ret(tokens, cursor, diags)
    ELSE IF next = "if" THEN parse_if(tokens, cursor, diags)
    ELSE Result("ok", cursor, diags, NullNode)

\* the scope loop of parse_function
RECURSIVE parse_function_scope(_, _, _, _, _)
parse_function_scope(tokens, cursor, diags, tag, scope) ==
    IF ~(cursor > 0 /\ peek(tokens, cursor, 0).depth > tag.depth)
    THEN [st |-> "ok", cursor |-> cursor, diags |-> diags, scope |-> scope]
    ELSE
    With([statement \in {parse_statement(tokens, cursor, diags)} |->
      IF statement.st = "ok" /\ statement.node # NullNode
      THEN parse_function_scope(tokens, statement.cursor, statement.diags, tag, Append(scope, statement.node))
      ELSE IF statement.st = "err"
      THEN With([next \in {synchronize(tokens, tag, statement.cursor)} |->
             IF next = cursor
             THEN [st |-> "diverge", cursor |-> next, diags |-> statement.diags, scope |-> scope]
             ELSE parse_function_scope(tokens, next, statement.diags, tag, scope)])
      ELSE [st |-> statement.st, cursor |-> statement.cursor, diags |-> statement.diags, scope |-> scope]])

\* std::find_if on a scope: the 0-based position of the first node of that kind, Len when absent
RECURSIVE find_kind_from(_, _, _)
find_kind_from(scope, kind, i) ==
    IF i >= Len(scope) THEN Len(scope)
    ELSE IF scope[i + 1].kind = kind THEN i
    ELSE find_kind_from(scope, kind, i + 1)

\* the parameters of a function: the properties after the second, as (name, value)
parameters_of(properties) ==
    [i \in 1 .. (IF Len(properties) > 2 THEN Len(properties) - 2 ELSE 0) |->
        <<properties[i + 2].name.data, properties[i + 2].value.value>>]

\* the fix-up that leaves the scope as it was parsed
function_returns_nothing(scope, type) == [ok |-> TRUE, scope |-> scope]

\* the return fix-up of parse_function: an empty return is appended to a 'none'
\* function without one, otherwise the first return takes the function's type
function_returns(scope, type) ==
    LET maybeReturn == find_kind_from(scope, "Return", 0) IN
    IF maybeReturn = Len(scope)
    THEN IF type = "none" THEN [ok |-> TRUE, scope |-> Append(scope, RetStmt(NoToken, type, NullNode))]
         ELSE [ok |-> FALSE, scope |-> scope]
    ELSE [ok |-> TRUE, scope |-> [scope EXCEPT ![maybeReturn + 1].type = type]]

parse_function(tokens, cursor, diags) ==
    With([o \in {parse_opening_tag(tokens, cursor, diags, "function")} |->
      IF o.st # "ok" THEN not_opened(o)
      ELSE
      With([n \in {Len(o.properties)} |->
        With([maybeName \in {find_property(o.properties, "name")} |->
          With([maybeType \in {find_property(o.properties, "type")} |->
            IF maybeName = n
            THEN error_on(o.tag, o.cursor, o.diags, "EXPECTED_TOKEN_MISSING", "requires property 'name'")
            ELSE IF maybeName = 0 /\ ~has_literal(o.properties, maybeName)
            THEN Result("crash", o.cursor, o.diags, NullNode)
            ELSE
            With([name \in {IF maybeName = 0 THEN literal_of(o.properties, maybeName) ELSE ""} |->
              With([d1 \in {IF maybeName # 0
                            THEN Append(o.diags, Diag("warning", "UNEXPECTED_TOKEN_POSITION",
                                                      <<o.properties[maybeName + 1].name>>, "should appear in first"))
                            ELSE o.diags} |->
                IF maybeType = n
                THEN error_on(o.tag, o.cursor, d1, "EXPECTED_TOKEN_MISSING", "requires property 'type'")
                ELSE IF maybeType = 1 /\ ~has_literal(o.properties, maybeType)
                THEN Result("crash", o.cursor, d1, NullNode)
                ELSE
                With([type \in {IF maybeType = 1 THEN literal_of(o.properties, maybeType) ELSE ""} |->
                  With([d2 \in {IF maybeType # 1
                                THEN Append(d1, Diag("warning", "UNEXPECTED_TOKEN_POSITION",
                                                     <<o.properties[maybeType + 1].name>>, "should appear in second"))
                                ELSE d1} |->
                    IF \E i \in 2 .. n - 1 : ~has_literal(o.properties, i)
                    THEN Result("crash", o.cursor, d2, NullNode)
                    ELSE
                    With([body \in {parse_function_scope(tokens, o.cursor, d2, o.tag, <<>>)} |->
                      IF body.st # "ok" THEN Result(body.st, body.cursor, body.diags, NullNode)
                      ELSE
                      With([fixed \in {function_returns(body.scope, type)} |->
                        IF ~fixed.ok
                        THEN error_on(o.tag, body.cursor, body.diags, "MISSING_RETURN_STATEMENT",
                                      "expects a value to be returned, yet no <return> tag was found.")
                        ELSE closed(tokens, body.cursor, body.diags, o.tag,
                                    FunctionDecl(o.tag, name, type, parameters_of(o.properties), fixed.scope))])])])])])])])])])])

parse_declaration(tokens, cursor, diags) ==
    IF peek(tokens, cursor, 1).data = "function" THEN parse_function(tokens, cursor, diags)
    ELSE Result("ok", cursor, diags, NullNode)

\* the scope loop of parse_program
RECURSIVE parse_program_scope(_, _, _, _, _)
parse_program_scope(tokens, cursor, diags, tag, scope) ==
    IF ~(cursor > 0 /\ peek(tokens, cursor, 0).depth = tag.depth + 1)
    THEN [st |-> "ok", cursor |-> cursor, diags |-> diags, scope |-> scope]
    ELSE
    With([node \in {IF is_next_declaration(tokens, cursor) THEN parse_declaration(tokens, cursor, diags)
                    ELSE IF is_next_statement(tokens, cursor) THEN parse_statement(tokens, cursor, diags)
                    ELSE Result("ok", cursor, diags, NullNode)} |->
      IF node.st = "ok" /\ node.node # NullNode
      THEN parse_program_scope(tokens, node.cursor, node.diags, tag, Append(scope, node.node))
      ELSE IF node.st = "err"
      THEN With([next \in {synchronize(tokens, tag, node.cursor)} |->
             IF next = cursor
             THEN [st |-> "diverge", cursor |-> next, diags |-> node.diags, scope |-> scope]
             ELSE parse_program_scope(tokens, next, node.diags, tag, scope)])
      ELSE [st |-> node.st, cursor |-> node.cursor, diags |-> node.diags, scope |-> scope]])

\* the call of main appended to every program
call_main_always(scope) == Append(scope, CallStmt(NoToken, "main", <<>>))

\* the synthesized call of main: appended when the scope holds a function named main
call_main(scope) ==
    IF \E i \in 1 .. Len(scope) : scope[i].kind = "Function" /\ scope[i].name = "main"
    THEN Append(scope, CallStmt(NoToken, "main", <<>>))
    ELSE scope

parse_program(tokens, cursor, diags) ==
    With([o \in {parse_opening_tag(tokens, cursor, diags, "program")} |->
      IF o.st # "ok" THEN not_opened(o)
      ELSE
      With([body \in {parse_program_scope(tokens, o.cursor, o.diags, o.tag, <<>>)} |->
        IF body.st # "ok" THEN Result(body.st, body.cursor, body.diags, NullNode)
        ELSE closed(tokens, body.cursor, body.diags, o.tag, ProgramDecl(o.tag, call_main(body.scope)))])])

has_error(diags) == \E i \in 1 .. Len(diags) : diags[i].severity = "error"

GiveUp == "I give up. ( ; w ; )"

\* parse: [st, node, error, diags, hadAnError]; hadAnError is hadAnError_g after the call
parse(tokens, hadAnError) ==
    With([program \in {parse_program(tokens, Len(tokens) - 1, <<>>)} |->
      With([flag \in {hadAnError \/ has_error(program.diags)} |->
        LET out(st, node, error) ==
                [st |-> st, node |-> node, error |-> error, cursor |-> program.cursor,
                 diags |-> program.diags, hadAnError |-> flag]
        IN  IF program.st = "err" THEN out("err", NullNode, "")
            ELSE IF program.st # "ok" THEN out(program.st, NullNode, "")
            ELSE IF flag THEN out("err", NullNode, GiveUp)
            ELSE out("ok", program.node, "")])])

(***************************************************************************)
(* Parser of the xmlang dialect (xmlang/source/Parser.cpp).  expect, peek, *)
(* advance, synchronize and parse_closing_tag read the same in both        *)
(* dialects and are shared.                                                *)
(***************************************************************************)

VARIABLE ub
    \* what this build does when parse_class dereferences properties.end():
    \* "crash", or "continue" with a warning about whatever was read

UbOutcomes == {"crash", "continue"}

xmlang_is_next_statement(tokens, cursor) ==
    peek(tokens, cursor, 1).data \in {"let", "call", "arg", "new", "return"}

xmlang_is_next_declaration(tokens, cursor) ==
    peek(tokens, cursor, 1).data \in {"function", "class", "ctor", "dtor"}

\* the properties loop of parse_opening_tag: a property is (name token, value token)
RECURSIVE xmlang_parse_properties(_, _, _, _)
xmlang_parse_properties(tokens, cursor, diags, properties) ==
    IF ~(cursor > 1 /\ peek(tokens, cursor, 0).type # "RIGHT_ANGLE")
    THEN [st |-> "ok", cursor |-> cursor, diags |-> diags, properties |-> properties]
    ELSE
    LET parameterName == advance_type(tokens, cursor, "IDENTIFIER")
        bad(r) == [st |-> r.st, cursor |-> r.cursor, diags |-> r.diags, properties |-> <<>>]
    IN
    IF ~parameterName.ok
    THEN bad(error_at(tokens, cursor, diags, "UNEXPECTED_TOKEN_REACHED", "was found instead of a property name"))
    ELSE
    LET equal == advance_type(tokens, parameterName.cursor, "EQUAL") IN
    IF ~equal.ok
    THEN bad(error_at(tokens, equal.cursor, diags, "EXPECTED_TOKEN_MISSING", "was found instead of equals"))
    ELSE
    LET open == advance_type(tokens, equal.cursor, "QUOTE") IN
    IF ~open.ok
    THEN bad(error_at(tokens, open.cursor, diags, "EXPECTED_TOKEN_MISSING", "was found instead of quotes"))
    ELSE
    LET parameterType == advance_type(tokens, open.cursor, "LITERAL") IN
    IF ~parameterType.ok
    THEN bad(error_at(tokens, parameterType.cursor, diags, "UNEXPECTED_TOKEN_REACHED", "was found instead of a property value"))
    ELSE
    LET close == advance_type(tokens, parameterType.cursor, "QUOTE") IN
    IF ~close.ok
    THEN bad(error_at(tokens, close.cursor, diags, "EXPECTED_TOKEN_MISSING", "was found instead of quotes"))
    ELSE xmlang_parse_properties(tokens, close.cursor, diags,
                                 Append(properties, [name |-> parameterName.token, value |-> parameterType.token]))

xmlang_parse_opening_tag(tokens, cursor, diags, name) ==
    LET bad(r) == [st |-> r.st, cursor |-> r.cursor, diags |-> r.diags, tag |-> NoToken, properties |-> <<>>]
    IN  With([left \in {advance_type(tokens, cursor, "LEFT_ANGLE")} |->
          IF ~left.ok
          THEN bad(error_at(tokens, cursor, diags, "UNEXPECTED_TOKEN_REACHED", "was found instead of a '<'"))
          ELSE
          With([tag \in {advance_type_data(tokens, left.cursor, "KEYWORD", name)} |->
            IF ~tag.ok
            THEN bad(error_at(tokens, tag.cursor, diags, "UNEXPECTED_TOKEN_REACHED", "was found instead of a tag"))
            ELSE
            With([props \in {xmlang_parse_properties(tokens, tag.cursor, diags, <<>>)} |->
              IF props.st # "ok" THEN bad(props)
              ELSE
              With([right \in {advance_type(tokens, props.cursor, "RIGHT_ANGLE")} |->
                IF ~right.ok
                THEN bad(error_at(tokens, right.cursor, props.diags, "UNEXPECTED_TOKEN_REACHED", "was found instead of a '>'"))
                ELSE [st |-> "ok", cursor |-> right.cursor, diags |-> props.diags, tag |-> tag.token, properties |-> props.properties]])])])])

\* peek(tokens, cursor, 1) is read without a bound check
xmlang_parse_expression(tokens, cursor, diags) ==
    IF ~in_range(tokens, cursor) THEN Result("range", cursor, diags, NullNode)
    ELSE IF peek(tokens, cursor, 0).type = "LITERAL"
    THEN Result("ok", cursor - 1, diags, LiteralExpr(peek(tokens, cursor, 0).data))
    ELSE IF ~in_range(tokens, cursor - 1) THEN Result("range", cursor, diags, NullNode)
    ELSE IF peek(tokens, cursor, 1).type = "KEYWORD" THEN Result("crash", cursor, diags, NullNode)
    ELSE Result("ok", cursor, diags, NullNode)

\* the value of a let, arg or return: the 'value' property, else the expression after the tag
xmlang_value(tokens, o) ==
    LET maybeValue == find_property(o.properties, "value") IN
    IF maybeValue # Len(o.properties)
    THEN Result("ok", o.cursor, o.diags, LiteralExpr(o.properties[maybeValue + 1].value.data))
    ELSE xmlang_parse_expression(tokens, o.cursor, o.diags)

xmlang_parse_argument(tokens, cursor, diags) ==
    With([o \in {xmlang_parse_opening_tag(tokens, cursor, diags, "arg")} |->
      IF o.st # "ok" THEN not_opened(o)
      ELSE
      With([value \in {xmlang_value(tokens, o)} |->
        IF value.st # "ok" THEN value
        ELSE IF value.node = NullNode
        THEN error_at(tokens, value.cursor, value.diags, "EXPECTED_TOKEN_MISSING", "was found instead of 'value' property")
        ELSE closed(tokens, value.cursor, value.diags, o.tag, ArgStmt(NoToken, value.node))])])

RECURSIVE xmlang_parse_call_arguments(_, _, _, _, _)
xmlang_parse_call_arguments(tokens, cursor, diags, tag, arguments) ==
    IF ~(cursor > 0 /\ peek(tokens, cursor, 0).depth > tag.depth)
    THEN [st |-> "ok", cursor |-> cursor, diags |-> diags, scope |-> arguments]
    ELSE
    With([argument \in {xmlang_parse_argument(tokens, cursor, diags)} |->
      IF argument.st = "ok" /\ argument.node # NullNode
      THEN xmlang_parse_call_arguments(tokens, argument.cursor, argument.diags, tag, Append(arguments, argument.node))
      ELSE IF argument.st = "err"
      THEN With([next \in {synchronize(tokens, tag, argument.cursor)} |->
             IF next = cursor
             THEN [st |-> "diverge", cursor |-> next, diags |-> argument.diags, scope |-> arguments]
             ELSE xmlang_parse_call_arguments(tokens, next, argument.diags, tag, arguments)])
      ELSE [st |-> argument.st, cursor |-> argument.cursor, diags |-> argument.diags, scope |-> arguments]])

xmlang_parse_call(tokens, cursor, diags) ==
    With([o \in {xmlang_parse_opening_tag(tokens, cursor, diags, "call")} |->
      IF o.st # "ok" THEN not_opened(o)
      ELSE
      With([maybeWho \in {find_property(o.properties, "who")} |->
        IF maybeWho = Len(o.properties)
        THEN error_on(o.tag, o.cursor, o.diags, "EXPECTED_TOKEN_MISSING", "requires property 'who'")
        ELSE
        With([args \in {xmlang_parse_call_arguments(tokens, o.cursor, o.diags, o.tag, <<>>)} |->
          IF args.st # "ok" THEN Result(args.st, args.cursor, args.diags, NullNode)
          ELSE closed(tokens, args.cursor, args.diags, o.tag,
                      CallStmt(o.tag, o.properties[maybeWho + 1].value.data, args.scope))])])])

xmlang_parse_let(tokens, cursor, diags) ==
    With([o \in {xmlang_parse_opening_tag(tokens, cursor, diags, "let")} |->
      IF o.st # "ok" THEN not_opened(o)
      ELSE
      With([maybeName \in {find_property(o.properties, "name")} |->
        With([maybeType \in {find_property(o.properties, "type")} |->
          IF maybeName = Len(o.properties)
          THEN error_on(o.tag, o.cursor, o.diags, "EXPECTED_TOKEN_MISSING", "requires property 'name'")
          ELSE IF maybeType = Len(o.properties)
          THEN error_on(o.tag, o.cursor, o.diags, "EXPECTED_TOKEN_MISSING", "requires property 'type'")
          ELSE
          With([value \in {xmlang_value(tokens, o)} |->
            IF value.st # "ok" THEN value
            ELSE IF value.node = NullNode
            THEN error_at(tokens, value.cursor, value.diags, "EXPECTED_TOKEN_MISSING", "was found instead of property 'value'")
            ELSE closed(tokens, value.cursor, value.diags, o.tag,
                        LetStmt(o.tag, o.properties[maybeName + 1].value.data,
                                o.properties[maybeType + 1].value.data, value.node))])])])])

ReturnStmt(token, value) == [kind |-> "Return", token |-> token, value |-> value]

xmlang_parse_return(tokens, cursor, diags) ==
    With([o \in {xmlang_parse_opening_tag(tokens, cursor, diags, "return")} |->
      IF o.st # "ok" THEN not_opened(o)
      ELSE
      With([value \in {xmlang_value(tokens, o)} |->
        IF value.st # "ok" THEN value
        ELSE closed(tokens, value.cursor, value.diags, o.tag, ReturnStmt(o.tag, value.node))])])

xmlang_parse_statement(tokens, cursor, diags) ==
    LET next == peek(tokens, cursor, 1).data IN
    IF next = "let" THEN xmlang_parse_let(tokens, cursor, diags)
    ELSE IF next = "call" THEN xmlang_parse_call(tokens, cursor, diags)
    ELSE IF next = "return" THEN xmlang_parse_return(tokens, cursor, diags)
    ELSE Result("ok", cursor, diags, NullNode)

RECURSIVE xmlang_parse_function_scope(_, _, _, _, _)
xmlang_parse_function_scope(tokens, cursor, diags, tag, scope) ==
    IF ~(cursor > 0 /\ peek(tokens, cursor, 0).depth > tag.depth)
    THEN [st |-> "ok", cursor |-> cursor, diags |-> diags, scope |-> scope]
    ELSE
    With([statement \in {xmlang_parse_statement(tokens, cursor, diags)} |->
      IF statement.st = "ok" /\ statement.node # NullNode
      THEN xmlang_parse_function_scope(tokens, statement.cursor, statement.diags, tag, Append(scope, statement.node))
      ELSE IF statement.st = "err"
      THEN With([next \in {synchronize(tokens, tag, statement.cursor)} |->
             IF next = cursor
             THEN [st |-> "diverge", cursor |-> next, diags |-> statement.diags, scope |-> scope]
             ELSE xmlang_parse_function_scope(tokens, next, statement.diags, tag, scope)])
      ELSE [st |-> statement.st, cursor |-> statement.cursor, diags |-> statement.diags, scope |-> scope]])

xmlang_FunctionDecl(token, name, result, parameters, scope) ==
    [kind |-> "Function", token |-> token, name |-> name, result |-> result,
     parameters |-> parameters, scope |-> scope]

ClassDecl(token, name, inherits, scope) ==
    [kind |-> "Class", token |-> token, name |-> name, inherits |-> inherits, scope |-> scope]

xmlang_parameters_of(properties) ==
    [i \in 1 .. (IF Len(properties) > 2 THEN Len(properties) - 2 ELSE 0) |->
        <<properties[i + 2].name.data, properties[i + 2].value.data>>]

\* the return fix-up of parse_function: an empty return is appended when the scope has none
xmlang_function_returns(scope) ==
    IF find_kind_from(scope, "Return", 0) = Len(scope)
    THEN Append(scope, ReturnStmt(NoToken, NullNode))
    ELSE scope

xmlang_parse_function(tokens, cursor, diags) ==
    With([o \in {xmlang_parse_opening_tag(tokens, cursor, diags, "function")} |->
      IF o.st # "ok" THEN not_opened(o)
      ELSE
      With([n \in {Len(o.properties)} |->
        With([maybeName \in {find_property(o.properties, "name")} |->
          With([maybeResult \in {find_property(o.properties, "result")} |->
            IF maybeName = n
            THEN error_on(o.tag, o.cursor, o.diags, "EXPECTED_TOKEN_MISSING", "requires property 'name'")
            ELSE
            With([name \in {IF maybeName = 0 THEN o.properties[maybeName + 1].value.data ELSE ""} |->
              With([d1 \in {IF maybeName # 0
                            THEN Append(o.diags, Diag("warning", "UNEXPECTED_TOKEN_POSITION",
                                                      <<o.properties[maybeName + 1].name>>, "should appear in first"))
                            ELSE o.diags} |->
                IF maybeResult = n
                THEN error_on(o.tag, o.cursor, d1, "EXPECTED_TOKEN_MISSING", "requires property 'result'")
                ELSE
                With([result \in {IF maybeResult = 1 THEN o.properties[maybeResult + 1].value.data ELSE ""} |->
                  With([d2 \in {IF maybeResult # 1
                                THEN Append(d1, Diag("warning", "UNEXPECTED_TOKEN_POSITION",
                                                     <<o.properties[maybeResult + 1].name>>, "should appear in second"))
                                ELSE d1} |->
                    With([body \in {xmlang_parse_function_scope(tokens, o.cursor, d2, o.tag, <<>>)} |->
                      IF body.st # "ok" THEN Result(body.st, body.cursor, body.diags, NullNode)
                      ELSE closed(tokens, body.cursor, body.diags, o.tag,
                                  xmlang_FunctionDecl(o.tag, name, result, xmlang_parameters_of(o.properties),
                                                      xmlang_function_returns(body.scope)))])])])])])])])])])

RECURSIVE xmlang_parse_declaration(_, _, _)

\* the scope loop of parse_ctor, parse_dtor and parse_class
RECURSIVE xmlang_parse_members(_, _, _, _, _)
xmlang_parse_members(tokens, cursor, diags, tag, scope) ==
    IF ~(cursor > 0 /\ peek(tokens, cursor, 0).depth > tag.depth)
    THEN [st |-> "ok", cursor |-> cursor, diags |-> diags, scope |-> scope]
    ELSE
    With([node \in {IF xmlang_is_next_declaration(tokens, cursor) THEN xmlang_parse_declaration(tokens, cursor, diags)
                    ELSE IF xmlang_is_next_statement(tokens, cursor) THEN xmlang_parse_statement(tokens, cursor, diags)
                    ELSE Result("ok", cursor, diags, NullNode)} |->
      IF node.st = "ok" /\ node.node # NullNode
      THEN xmlang_parse_members(tokens, node.cursor, node.diags, tag, Append(scope, node.node))
      ELSE IF node.st = "err"
      THEN With([next \in {synchronize(tokens, tag, node.cursor)} |->
             IF next = cursor
             THEN [st |-> "diverge", cursor |-> next, diags |-> node.diags, scope |-> scope]
             ELSE xmlang_parse_members(tokens, next, node.diags, tag, scope)])
      ELSE [st |-> node.st, cursor |-> node.cursor, diags |-> node.diags, scope |-> scope]])

\* parse_ctor and parse_dtor: a function named after the tag, without result and parameters
xmlang_parse_xtor(tokens, cursor, diags, which) ==
    With([o \in {xmlang_parse_opening_tag(tokens, cursor, diags, which)} |->
      IF o.st # "ok" THEN not_opened(o)
      ELSE
      With([body \in {xmlang_parse_members(tokens, o.cursor, o.diags, o.tag, <<>>)} |->
        IF body.st # "ok" THEN Result(body.st, body.cursor, body.diags, NullNode)
        ELSE closed(tokens, body.cursor, body.diags, o.tag,
                    xmlang_FunctionDecl(o.tag, which, "", <<>>, body.scope))])])

parse_ctor(tokens, cursor, diags) == xmlang_parse_xtor(tokens, cursor, diags, "ctor")

parse_dtor(tokens, cursor, diags) == xmlang_parse_xtor(tokens, cursor, diags, "dtor")

\* std::getline(stream, inherited, ','): the pieces of a comma-separated list
RECURSIVE split_commas(_)
split_commas(text) ==
    IF text = "" THEN <<>>
    ELSE LET n == find_from(text, ",", 0)
         IN  IF n >= Len(text) THEN <<text>>
             ELSE <<substr_n(text, 0, n)>> \o split_commas(substr(text, n + 1))

\* std::find_if on a scope: the 0-based position of the first function of that name
RECURSIVE find_function_from(_, _, _)
find_function_from(scope, name, i) ==
    IF i >= Len(scope) THEN Len(scope)
    ELSE IF scope[i + 1].kind = "Function" /\ scope[i + 1].name = name THEN i
    ELSE find_function_from(scope, name, i + 1)

\* scope.insert(scope.begin() + pos, node)
insert_at(scope, pos, node) == SubSeq(scope, 1, pos) \o <<node>> \o SubSeq(scope, pos + 1, Len(scope))

\* the ctor fix-up of parse_class: a missing ctor is synthesized in front, the first
\* existing one gets (self, class name) appended to its parameters
class_ctor(scope, className) ==
    LET maybeCtor == find_function_from(scope, "ctor", 0) IN
    IF maybeCtor = Len(scope)
    THEN insert_at(scope, 0, xmlang_FunctionDecl(NoToken, "ctor", "none", <<<<"self", className>>>>, <<>>))
    ELSE [scope EXCEPT ![maybeCtor + 1].parameters = Append(@, <<"self", className>>)]

\* the dtor fix-up of parse_class: a missing dtor is synthesized in second place
class_dtor(scope, className) ==
    LET maybeDtor == find_function_from(scope, "dtor", 0) IN
    IF maybeDtor = Len(scope)
    THEN insert_at(scope, 1, xmlang_FunctionDecl(NoToken, "dtor", "none", <<<<"self", className>>>>, <<>>))
    ELSE [scope EXCEPT ![maybeDtor + 1].parameters = Append(@, <<"self", className>>)]

parse_class(tokens, cursor, diags) ==
    With([o \in {xmlang_parse_opening_tag(tokens, cursor, diags, "class")} |->
      IF o.st # "ok" THEN not_opened(o)
      ELSE
      With([n \in {Len(o.properties)} |->
        With([maybeName \in {find_property(o.properties, "name")} |->
          With([maybeInherits \in {find_property(o.properties, "inherits")} |->
            IF maybeName = n
            THEN error_on(o.tag, o.cursor, o.diags, "EXPECTED_TOKEN_MISSING", "requires property 'name'")
            ELSE
            With([name \in {IF maybeName = 0 THEN o.properties[maybeName + 1].value.data ELSE ""} |->
              With([d1 \in {IF maybeName # 0
                            THEN Append(o.diags, Diag("warning", "UNEXPECTED_TOKEN_POSITION",
                                                      <<o.properties[maybeName + 1].name>>, "should appear in first"))
                            ELSE o.diags} |->
                With([inherits \in {IF maybeInherits # n THEN split_commas(o.properties[maybeInherits + 1].value.data) ELSE <<>>} |->
                  With([pastEnd \in {maybeInherits = n /\ n # 1} |->
                    With([d2 \in {IF pastEnd
                                  THEN Append(d1, Diag("warning", "UNEXPECTED_TOKEN_POSITION", <<NoToken>>, "should appear in second"))
                                  ELSE d1} |->
                      IF pastEnd /\ ub = "crash" THEN Result("crash", o.cursor, d1, NullNode)
                      ELSE
                      With([body \in {xmlang_parse_members(tokens, o.cursor, d2, o.tag, <<>>)} |->
                        IF body.st # "ok" THEN Result(body.st, body.cursor, body.diags, NullNode)
                        ELSE closed(tokens, body.cursor, body.diags, o.tag,
                                    ClassDecl(o.tag, name, inherits, class_dtor(class_ctor(body.scope, name), name)))])])])])])])])])])])

xmlang_parse_declaration(tokens, cursor, diags) ==
    LET next == peek(tokens, cursor, 1).data IN
    IF next = "function" THEN xmlang_parse_function(tokens, cursor, diags)
    ELSE IF next = "class" THEN parse_class(tokens, cursor, diags)
    ELSE IF next = "ctor" THEN parse_ctor(tokens, cursor, diags)
    ELSE IF next = "dtor" THEN parse_dtor(tokens, cursor, diags)
    ELSE Result("ok", cursor, diags, NullNode)

RECURSIVE xmlang_parse_program_scope(_, _, _, _, _)
xmlang_parse_program_scope(tokens, cursor, diags, tag, scope) ==
    IF ~(cursor > 0 /\ peek(tokens, cursor, 0).depth = tag.depth + 1)
    THEN [st |-> "ok", cursor |-> cursor, diags |-> diags, scope |-> scope]
    ELSE
    With([node \in {IF xmlang_is_next_declaration(tokens, cursor) THEN xmlang_parse_declaration(tokens, cursor, diags)
                    ELSE IF xmlang_is_next_statement(tokens, cursor) THEN xmlang_parse_statement(tokens, cursor, diags)
                    ELSE Result("ok", cursor, diags, NullNode)} |->
      IF node.st = "ok" /\ node.node # NullNode
      THEN xmlang_parse_program_scope(tokens, node.cursor, node.diags, tag, Append(scope, node.node))
      ELSE IF node.st = "err"
      THEN With([next \in {synchronize(tokens, tag, node.cursor)} |->
             IF next = cursor
             THEN [st |-> "diverge", cursor |-> next, diags |-> node.diags, scope |-> scope]
             ELSE xmlang_parse_program_scope(tokens, next, node.diags, tag, scope)])
      ELSE [st |-> node.st, cursor |-> node.cursor, diags |-> node.diags, scope |-> scope]])

xmlang_parse_program(tokens, cursor, diags) ==
    With([o \in {xmlang_parse_opening_tag(tokens, cursor, diags, "program")} |->
      IF o.st # "ok" THEN not_opened(o)
      ELSE
      With([body \in {xmlang_parse_program_scope(tokens, o.cursor, o.diags, o.tag, <<>>)} |->
        IF body.st # "ok" THEN Result(body.st, body.cursor, body.diags, NullNode)
        ELSE closed(tokens, body.cursor, body.diags, o.tag, ProgramDecl(o.tag, call_main(body.scope)))])])

xmlang_parse(tokens, hadAnError) ==
    With([program \in {xmlang_parse_program(tokens, Len(tokens) - 1, <<>>)} |->
      With([flag \in {hadAnError \/ has_error(program.diags)} |->
        LET out(st, node, error) ==
                [st |-> st, node |-> node, error |-> error, cursor |-> program.cursor,
                 diags |-> program.diags, hadAnError |-> flag]
        IN  IF program.st = "err" THEN out("err", NullNode, "")
            ELSE IF program.st # "ok" THEN out(program.st, NullNode, "")
            ELSE IF flag THEN out("err", NullNode, GiveUp)
            ELSE out("ok", program.node, "")])])

(***************************************************************************)
(* Code generation (xmlc/source/codegen/Compiler.cpp).  The compiler's     *)
(* file-scope state is g = [dataSegmentBytes, dataSegmentOffsets_g].       *)
(***************************************************************************)

\* fmt::format("{}", n) of an integer
RECURSIVE to_string(_)
to_string(n) ==
    IF n < 0 THEN "-" \o to_string(0 - n)
    ELSE IF n < 10 THEN at(Digits, n)
    ELSE to_string(n \div 10) \o at(Digits, n % 10)

EmptyMap == [k \in {} |-> 0]

\* std::map::insert: an existing key keeps its value
map_insert(m, k, v) == IF k \in DOMAIN m THEN m ELSE m @@ (k :> v)

contains(m, k) == k \in DOMAIN m

\* [\w]
is_word(c) == isalpha(c) \/ isdigit(c) \/ c = "_"

RECURSIVE word_end(_, _, _)
word_end(buf, i, end) ==
    IF i < end /\ is_word(at(buf, i)) THEN word_end(buf, i + 1, end) ELSE i

\* std::regex_search for (\$\{([\w]*)\}) in buf[from, end): where the first match
\* starts and how long it is; pos = end when there is none
RECURSIVE regex_search(_, _, _)
regex_search(buf, from, end) ==
    IF from >= end THEN [pos |-> end, len |-> 0]
    ELSE IF at(buf, from) = "$" /\ from + 1 < end /\ at(buf, from + 1) = "{"
            /\ word_end(buf, from + 2, end) < end /\ at(buf, word_end(buf, from + 2, end)) = "}"
    THEN [pos |-> from, len |-> word_end(buf, from + 2, end) + 1 - from]
    ELSE regex_search(buf, from + 1, end)

\* the terminator a std::string keeps behind its characters
NUL == "\f"

\* The rewriting loop of the ARG case: value.replace runs while the std::sregex_iterator
\* still points into value.  The characters move inside the same buffer, so the next
\* search reads buf from the old end of the match up to the old end of the text.
\* A replace that lengthens the text may move the buffer: what follows depends on ub.
RECURSIVE rewrite_interpolations(_, _, _, _)
rewrite_interpolations(value, buf, from, end) ==
    With([match \in {regex_search(buf, from, end)} |->
      IF match.pos = end THEN [st |-> "ok", value |-> value]
      ELSE IF match.pos > Len(value) THEN [st |-> "crash", value |-> value]
      ELSE
      With([n \in {IF match.len < Len(value) - match.pos THEN match.len ELSE Len(value) - match.pos} |->
        With([replaced \in {substr_n(value, 0, match.pos) \o "{}" \o substr(value, match.pos + n)} |->
          With([written \in {replaced \o NUL} |->
            With([newbuf \in {IF Len(written) >= Len(buf) THEN written ELSE written \o substr(buf, Len(written))} |->
              IF Len(replaced) > Len(value) /\ ub = "crash" THEN [st |-> "crash", value |-> replaced]
              ELSE rewrite_interpolations(replaced, newbuf, match.pos + match.len, end)])])])])])

is_interpolation(value) == starts_with(value, "${") /\ ends_with(value, "}")

Generated(st, code, g) == [st |-> st, code |-> code, g |-> g]

RECURSIVE generate_data_segment(_, _)

\* the loops of generate_data_segment over the children of a call or a declaration
RECURSIVE generate_children(_, _, _, _, _)
generate_children(children, i, prefix, code, g) ==
    IF i > Len(children) THEN Generated("ok", code, g)
    ELSE
    With([value \in {generate_data_segment(children[i], g)} |->
      IF value.st # "ok" THEN value
      ELSE IF value.code = "" THEN generate_children(children, i + 1, prefix, code, value.g)
      ELSE generate_children(children, i + 1, "\n", code \o prefix \o value.code, value.g)])

generate_data_segment(node, g) ==
    IF node.kind = "Null" THEN Generated("crash", "", g)
    ELSE IF node.kind = "Call" THEN generate_children(node.arguments, 1, "", "", g)
    ELSE IF node.kind = "Let"
    THEN IF node.type # "string" THEN Generated("ok", "", g)
         ELSE With([value \in {generate_data_segment(node.value, g)} |->
                IF value.st # "ok" THEN value
                ELSE Generated("ok", to_string(Len(value.code)) \o " " \o value.code,
                               [dataSegmentOffsets_g |-> map_insert(value.g.dataSegmentOffsets_g, node.name, value.g.dataSegmentBytes),
                                dataSegmentBytes |-> value.g.dataSegmentBytes + 4 + Len(value.code)])])
    ELSE IF node.kind = "Return"
    THEN IF node.type = "none" THEN Generated("ok", "", g)
         ELSE With([value \in {generate_data_segment(node.value, g)} |->
                IF value.st # "ok" THEN value
                ELSE IF value.code = "" THEN Generated("ok", "", value.g)
                ELSE Generated("ok", to_string(Len(value.code)) \o " " \o value.code,
                               [dataSegmentOffsets_g |-> IF node.type = "string"
                                                         THEN map_insert(value.g.dataSegmentOffsets_g, value.code, value.g.dataSegmentBytes)
                                                         ELSE value.g.dataSegmentOffsets_g,
                                dataSegmentBytes |-> value.g.dataSegmentBytes + 4 + Len(value.code)])])
    ELSE IF node.kind = "Arg"
    THEN With([value \in {generate_data_segment(node.value, g)} |->
           IF value.st # "ok" THEN value
           ELSE IF node.value.kind # "Literal" THEN value
           ELSE IF all_digits(value.code) \/ is_interpolation(value.code) THEN Generated("ok", "", value.g)
           ELSE With([rewritten \in {rewrite_interpolations(value.code, value.code \o NUL, 0, Len(value.code))} |->
                  With([g1 \in {[dataSegmentOffsets_g |-> map_insert(value.g.dataSegmentOffsets_g, value.code, value.g.dataSegmentBytes),
                                 dataSegmentBytes |-> value.g.dataSegmentBytes + 4 + Len(value.code)]} |->
                    IF rewritten.st # "ok" THEN Generated(rewritten.st, "", g1)
                    ELSE Generated("ok", to_string(Len(rewritten.value)) \o " " \o rewritten.value, g1)])])])
    ELSE IF node.kind = "Literal"
    THEN IF is_interpolation(node.value) THEN Generated("ok", "", g) ELSE Generated("ok", node.value, g)
    ELSE IF node.kind \in {"Program", "Function"} THEN generate_children(node.scope, 1, "", "", g)
    ELSE Generated("ok", "", g)

Compiled(st, code) == [st |-> st, code |-> code]

RECURSIVE index_of(_, _, _)
index_of(seq, x, i) ==
    IF i >= Len(seq) THEN Len(seq) ELSE IF seq[i + 1] = x THEN i ELSE index_of(seq, x, i + 1)

RECURSIVE let_names(_, _)
let_names(scope, i) ==
    IF i > Len(scope) THEN <<>>
    ELSE (IF scope[i].kind = "Let" THEN <<scope[i].name>> ELSE <<>>) \o let_names(scope, i + 1)

\* the names a literal may refer to: the parameters of the function, then its lets
variables_of(parent) ==
    (IF parent.kind = "Function" THEN [i \in 1 .. Len(parent.parameters) |-> parent.parameters[i][1]] ELSE <<>>)
    \o let_names(parent.scope, 1)

\* match.str(2) of the first ${...} in the text, "" when nothing matches
first_interpolated(value) ==
    With([match \in {regex_search(value, 0, Len(value))} |->
      IF match.pos = Len(value) THEN "" ELSE substr_n(value, match.pos + 2, match.len - 3)])

compile_literal_expression(offsets, parent, expression) ==
    LET variables == variables_of(parent) IN
    IF all_digits(expression.value) THEN Compiled("ok", "push " \o expression.value)
    ELSE IF is_interpolation(expression.value)
    THEN With([maybeVariable \in {index_of(variables, first_interpolated(expression.value), 0)} |->
           IF maybeVariable = Len(variables) THEN Compiled("crash", "")
           ELSE Compiled("ok", "load scope[" \o to_string(maybeVariable) \o "]")])
    ELSE IF contains(offsets, expression.value)
    THEN Compiled("ok", "load .data[" \o to_string(offsets[expression.value]) \o "]")
    ELSE Compiled("crash", "")

\* only literals reach the compiler as values; a missing value is a null dereference
compile_expression(offsets, parent, expression) ==
    IF expression.kind = "Literal" THEN compile_literal_expression(offsets, parent, expression)
    ELSE Compiled("crash", "")

compile_arg_expression(offsets, parent, statement) == compile_expression(offsets, parent, statement.value)

compile_ret_statement(offsets, parent, statement) ==
    IF statement.value # NullNode
    THEN With([value \in {compile_expression(offsets, parent, statement.value)} |->
           IF value.st # "ok" THEN value ELSE Compiled("ok", value.code \o "\n" \o "ret")])
    ELSE Compiled("ok", "ret")

\* std::find_if over parent->scope for the let of that name
RECURSIVE find_let_from(_, _, _)
find_let_from(scope, name, i) ==
    IF i >= Len(scope) THEN Len(scope)
    ELSE IF scope[i + 1].kind = "Let" /\ scope[i + 1].name = name THEN i
    ELSE find_let_from(scope, name, i + 1)

compile_let_statement(offsets, parent, statement) ==
    IF statement.value = NullNode THEN Compiled("crash", "")
    ELSE
    LET value == IF statement.value.kind # "Literal" THEN ""
                 ELSE IF statement.type = "number" THEN "push " \o statement.value.value
                 ELSE IF statement.type = "string" /\ contains(offsets, statement.name)
                 THEN "load .data[" \o to_string(offsets[statement.name]) \o "]"
                 ELSE ""
        variable == find_let_from(parent.scope, statement.name, 0)
    IN  IF statement.value.kind = "Literal" /\ statement.type = "string" /\ ~contains(offsets, statement.name)
        THEN Compiled("crash", "")
        ELSE IF variable = Len(parent.scope) THEN Compiled("crash", "")
        ELSE Compiled("ok", value \o "\nstore scope[" \o to_string(variable) \o "]")

intrinsics_g == [print |-> "none", println |-> "none"]

RECURSIVE compile_arguments(_, _, _, _, _)
compile_arguments(offsets, parent, arguments, i, code) ==
    IF i > Len(arguments) THEN Compiled("ok", code)
    ELSE With([argument \in {compile_arg_expression(offsets, parent, arguments[i])} |->
           IF argument.st # "ok" THEN argument
           ELSE compile_arguments(offsets, parent, arguments, i + 1, code \o argument.code \o "\n")])

compile_call_statement(offsets, program, parent, statement) ==
    With([arguments \in {compile_arguments(offsets, parent, statement.arguments, 1, "")} |->
      IF arguments.st # "ok" THEN arguments
      ELSE IF ~contains(intrinsics_g, statement.who)
      THEN LET function == find_function_from(program.scope, statement.who, 0) IN
           IF function = Len(program.scope) THEN Compiled("crash", "")
           ELSE Compiled("ok", arguments.code \o "call " \o statement.who
                               \o (IF program.scope[function + 1].type # "none" THEN "\npop" ELSE ""))
      ELSE Compiled("ok", arguments.code \o "call " \o statement.who
                          \o (IF intrinsics_g[statement.who] # "none" THEN "\npop" ELSE ""))])

compile_statement(offsets, program, parent, statement) ==
    IF statement.kind = "Let" THEN compile_let_statement(offsets, parent, statement)
    ELSE IF statement.kind = "Call" THEN compile_call_statement(offsets, program, parent, statement)
    ELSE IF statement.kind = "Return" THEN compile_ret_statement(offsets, parent, statement)
    ELSE IF statement.kind = "If" THEN Compiled("crash", "")
    ELSE Compiled("ok", "")

RECURSIVE compile_function_scope(_, _, _, _, _, _)
compile_function_scope(offsets, program, declaration, i, separator, code) ==
    IF i > Len(declaration.scope) THEN Compiled("ok", code)
    ELSE With([child \in {compile_statement(offsets, program, declaration, declaration.scope[i])} |->
           IF child.st # "ok" THEN child
           ELSE compile_function_scope(offsets, program, declaration, i + 1, "\n", code \o separator \o child.code)])

compile_function_declaration(offsets, program, declaration) ==
    compile_function_scope(offsets, program, declaration, 1, "", "function " \o declaration.name \o "\n\n")

compile_declaration(offsets, program, declaration) ==
    IF declaration.kind = "Function" THEN compile_function_declaration(offsets, program, declaration)
    ELSE Compiled("ok", "")

is_declaration(node) == node.kind \in {"Function", "Program", "Class"}

\* the first loop of compile_program: the declarations, two line feeds apart
RECURSIVE compile_declarations(_, _, _, _, _)
compile_declarations(offsets, program, i, prefix, code) ==
    IF i > Len(program.scope) THEN Compiled("ok", code)
    ELSE IF ~is_declaration(program.scope[i]) THEN compile_declarations(offsets, program, i + 1, prefix, code)
    ELSE With([child \in {compile_declaration(offsets, program, program.scope[i])} |->
           IF child.st # "ok" THEN child
           ELSE compile_declarations(offsets, program, i + 1, "\n\n", code \o prefix \o child.code)])

\* the second loop of compile_program: the calls of the program scope
RECURSIVE compile_entrypoint(_, _, _, _)
compile_entrypoint(offsets, program, i, code) ==
    IF i > Len(program.scope) THEN Compiled("ok", code)
    ELSE IF program.scope[i].kind # "Call" THEN compile_entrypoint(offsets, program, i + 1, code)
    ELSE With([child \in {compile_statement(offsets, program, program, program.scope[i])} |->
           IF child.st # "ok" THEN child
           ELSE compile_entrypoint(offsets, program, i + 1, code \o child.code \o "\n")])

compile_program(offsets, declaration) ==
    With([declarations \in {compile_declarations(offsets, declaration, 1, "", "")} |->
      IF declarations.st # "ok" THEN declarations
      ELSE
      With([code \in {(IF declarations.code # "" THEN declarations.code \o "\n\n" ELSE "") \o "entrypoint\n\n"} |->
        With([calls \in {compile_entrypoint(offsets, declaration, 1, code)} |->
          IF calls.st # "ok" THEN calls ELSE Compiled("ok", calls.code \o "ret")])])])

\* compile: the text, and the file-scope state it leaves behind
compile(ast, g) ==
    With([data \in {generate_data_segment(ast, g)} |->
      IF data.st # "ok" THEN [st |-> data.st, code |-> "", g |-> data.g]
      ELSE
      With([dataSegment \in {IF data.code # "" THEN ".data\n" \o "\n" \o data.code \o "\n\n" ELSE ""} |->
        With([code \in {compile_program(data.g.dataSegmentOffsets_g, ast)} |->
          IF code.st # "ok" THEN [st |-> code.st, code |-> "", g |-> data.g]
          ELSE [st |-> "ok", g |-> data.g,
                code |-> dataSegment \o ".code\n" \o (IF code.code # "" THEN "\n" \o code.code ELSE "")]])])])

FreshCompiler == [dataSegmentBytes |-> 0, dataSegmentOffsets_g |-> EmptyMap]

(***************************************************************************)
(* Assembler (xmlc/source/codegen/Assembler.cpp).  codeSegmentOffsets_g is *)
(* the assembler's file-scope map; every operator that writes it returns   *)
(* the map it leaves behind.                                               *)
(***************************************************************************)

Opcode == [CALL |-> 0, LOAD |-> 1, POP |-> 2, PUSH |-> 3, RET |-> 4, STORE |-> 5]

CallMode == [EXTRINSIC |-> 0, INTRINSIC |-> 1]

Intrinsic == [PRINT |-> 0, PRINTLN |-> 1]

DataSource == [DATA_SEGMENT |-> 0, LOCAL_SCOPE |-> 1, GLOBAL_SCOPE |-> 2]

DataDestination == [LOCAL_SCOPE |-> 0, GLOBAL_SCOPE |-> 1]

\* byte k (0 = lowest) of a 32-bit two's complement integer
byte_of(value, k) ==
    LET shift == IF k = 0 THEN 1 ELSE IF k = 1 THEN 256 ELSE IF k = 2 THEN 65536 ELSE 16777216 IN
    IF value >= 0 THEN (value \div shift) % 256
    ELSE 255 - ((((0 - value) - 1) \div shift) % 256)

int_2_bytes(value) == <<byte_of(value, 3), byte_of(value, 2), byte_of(value, 1), byte_of(value, 0)>>

is_space(c) == c \in {" ", "\t", "\n", "\r", "\f"}

RECURSIVE skip_spaces(_, _)
skip_spaces(s, i) == IF i < Len(s) /\ is_space(at(s, i)) THEN skip_spaces(s, i + 1) ELSE i

RECURSIVE read_digits(_, _, _)
read_digits(s, i, acc) ==
    IF ~(i < Len(s) /\ isdigit(at(s, i))) THEN acc
    ELSE LET d == find_from(Digits, at(s, i), 0) IN
         IF acc > 214748364 \/ (acc = 214748364 /\ d > 7) THEN 2147483647
         ELSE read_digits(s, i + 1, acc * 10 + d)

\* std::stringstream(s) >> int: blanks, a sign, decimal digits; 0 when there is no digit
stream_int(s) ==
    LET i == skip_spaces(s, 0)
        signed == i < Len(s) /\ at(s, i) \in {"+", "-"}
        j == IF signed THEN i + 1 ELSE i
    IN  IF ~(j < Len(s) /\ isdigit(at(s, j))) THEN 0
        ELSE IF signed /\ at(s, i) = "-" THEN 0 - read_digits(s, j, 0)
        ELSE read_digits(s, j, 0)

RECURSIVE word_stop(_, _)
word_stop(s, i) == IF i < Len(s) /\ ~is_space(at(s, i)) THEN word_stop(s, i + 1) ELSE i

\* std::stringstream(s) >> std::string: the first blank-delimited word
stream_word(s) ==
    LET i == skip_spaces(s, 0) IN substr_n(s, i, word_stop(s, i) - i)

\* std::string::find_first_of(c), then + 1: npos + 1 wraps to 0
after_first(s, c) == IF contains_char(s, c) THEN find_from(s, c, 0) + 1 ELSE 0

\* substr(0, find_first_of(c)): the whole text when c is absent
before_first(s, c) == substr_n(s, 0, find_from(s, c, 0))

to_upper(s) ==
    [i \in 1 .. Len(s) |->
        IF contains_char(Lower, at(s, i - 1)) THEN at(Upper, find_from(Lower, at(s, i - 1), 0)) ELSE at(s, i - 1)]

RECURSIVE concat(_)
concat(pieces) == IF pieces = <<>> THEN "" ELSE Head(pieces) \o concat(Tail(pieces))

toupper(s) == concat(to_upper(s))

bytes_of(text) == [i \in 1 .. Len(text) |-> Ord(at(text, i - 1))]

Assembled(st, bytes) == [st |-> st, bytes |-> bytes]

\* the entries of the data segment: a 4-byte length, then the text behind the first space
RECURSIVE assemble_entries(_, _, _)
assemble_entries(lines, i, bytes) ==
    IF i > Len(lines) THEN bytes
    ELSE assemble_entries(lines, i + 1,
            bytes \o int_2_bytes(stream_int(before_first(lines[i], " ")))
                  \o bytes_of(substr(lines[i], after_first(lines[i], " "))))

assemble_data_segment(code) ==
    IF code = "" THEN Assembled("ok", <<>>)
    ELSE With([lines \in {next_line(code)} |->
           IF Len(lines) = 0 \/ lines[1] # ".data" THEN Assembled("err", <<>>)
           ELSE Assembled("ok", assemble_entries(lines, 3, <<>>))])

assemble_call(codeSegmentOffsets_g, operand) ==
    IF contains(codeSegmentOffsets_g, operand)
    THEN Assembled("ok", <<Opcode.CALL * 8 + CallMode.EXTRINSIC, codeSegmentOffsets_g[operand] % 256>>)
    ELSE IF toupper(operand) \notin DOMAIN Intrinsic THEN Assembled("crash", <<>>)
    ELSE Assembled("ok", <<Opcode.CALL * 8 + CallMode.INTRINSIC, Intrinsic[toupper(operand)]>>)

\* offsetData.pop_back() on an empty text is undefined
assemble_load(operands) ==
    LET offsetData == substr(operands, after_first(operands, "["))
    IN  With([word \in {stream_word(before_first(operands, "["))} |->
          With([source \in {IF word = ".data" THEN DataSource.DATA_SEGMENT
                            ELSE IF word = "scope" THEN DataSource.LOCAL_SCOPE
                            ELSE DataSource.GLOBAL_SCOPE} |->
            IF offsetData = "" /\ ub = "crash" THEN Assembled("crash", <<>>)
            ELSE Assembled("ok", <<Opcode.LOAD * 8, source>>
                                 \o int_2_bytes(stream_int(substr_n(offsetData, 0, Len(offsetData) - 1))))])])

assemble_pop == <<Opcode.POP * 8>>

assemble_push(operand) == Assembled("ok", <<Opcode.PUSH * 8>> \o int_2_bytes(stream_int(operand)))

\* ret assembled as pop is
assemble_ret_of_pop == <<Opcode.POP * 8>>

assemble_ret == <<Opcode.RET * 8>>

assemble_store(operands) ==
    With([word \in {stream_word(before_first(operands, "["))} |->
      With([destination \in {IF word = "scope" THEN DataDestination.LOCAL_SCOPE ELSE DataDestination.GLOBAL_SCOPE} |->
        Assembled("ok", <<Opcode.STORE * 8, destination>>
                        \o int_2_bytes(stream_int(substr_n(operands, after_first(operands, "["), 1))))])])

assemble_instruction(codeSegmentOffsets_g, instruction) ==
    LET opcode == before_first(instruction, " ")
        operands == substr(instruction, after_first(instruction, " "))
    IN  IF opcode = "pop" THEN Assembled("ok", assemble_pop)
        ELSE IF opcode = "ret" THEN Assembled("ok", assemble_ret)
        ELSE IF opcode = "call" THEN assemble_call(codeSegmentOffsets_g, operands)
        ELSE IF opcode = "load" THEN assemble_load(operands)
        ELSE IF opcode = "push" THEN assemble_push(operands)
        ELSE IF opcode = "store" THEN assemble_store(operands)
        ELSE Assembled("err", <<>>)

\* the loops of assemble_code_segment; inBlock tells the instruction loop from the header loop
RECURSIVE assemble_blocks(_, _, _, _, _)
assemble_blocks(lines, i, inBlock, bytes, codeSegmentOffsets_g) ==
    IF i > Len(lines) THEN [st |-> "ok", bytes |-> bytes, codeSegmentOffsets_g |-> codeSegmentOffsets_g]
    ELSE IF inBlock
    THEN IF lines[i] = "" THEN assemble_blocks(lines, i + 1, FALSE, bytes, codeSegmentOffsets_g)
         ELSE With([instruction \in {assemble_instruction(codeSegmentOffsets_g, lines[i])} |->
                IF instruction.st # "ok"
                THEN [st |-> instruction.st, bytes |-> bytes, codeSegmentOffsets_g |-> codeSegmentOffsets_g]
                ELSE assemble_blocks(lines, i + 1, TRUE, bytes \o instruction.bytes, codeSegmentOffsets_g)])
    ELSE IF ~(starts_with(lines[i], "function") \/ starts_with(lines[i], "entrypoint"))
    THEN [st |-> "crash", bytes |-> bytes, codeSegmentOffsets_g |-> codeSegmentOffsets_g]
    ELSE assemble_blocks(lines, i + 2, TRUE, bytes,
            map_insert(codeSegmentOffsets_g,
                       IF starts_with(lines[i], "function") THEN substr(lines[i], after_first(lines[i], " "))
                       ELSE "entrypoint",
                       Len(bytes)))

assemble_code_segment(code, codeSegmentOffsets_g) ==
    With([lines \in {next_line(code)} |->
      IF Len(lines) = 0 \/ lines[1] # ".code"
      THEN [st |-> "err", bytes |-> <<>>, codeSegmentOffsets_g |-> codeSegmentOffsets_g]
      ELSE assemble_blocks(lines, 3, FALSE, <<>>, codeSegmentOffsets_g)])

\* the loop of assemble that looks for the line where the code segment starts:
\* the number of bytes counted before that line, -1 when the text has no such line
RECURSIVE segment_split(_, _)
segment_split(rest, bytes) ==
    LET n == find_from(rest, "\n", 0)
        line == substr_n(rest, 0, n)
    IN  IF (starts_with(line, ".") /\ bytes > 0) \/ line = ".code" THEN bytes
        ELSE IF n >= Len(rest) THEN -1
        ELSE segment_split(substr(rest, n + 1), bytes + Len(line) + (IF line = "" THEN 0 ELSE 1))

Magic == "This is a kubo program"

\* dataSegment = code.substr(0, bytes)
data_segment_of(code) ==
    With([bytes \in {segment_split(code, 0)} |->
      IF bytes < 0 THEN "" ELSE substr_n(code, 0, bytes)])

\* codeSegment = code.substr(bytes + code.substr(bytes).find_first_of('.'))
code_segment_of(code) ==
    With([bytes \in {segment_split(code, 0)} |->
      IF bytes < 0 THEN "" ELSE substr(code, bytes + find_from(substr(code, bytes), ".", 0))])

assemble(code, codeSegmentOffsets_g) ==
    LET failed(st, map) == [st |-> st, program |-> <<>>, codeSegmentOffsets_g |-> map]
    IN  With([dataSegmentBytes \in {assemble_data_segment(data_segment_of(code))} |->
          IF dataSegmentBytes.st # "ok" THEN failed(dataSegmentBytes.st, codeSegmentOffsets_g)
          ELSE
          With([codeSegmentBytes \in {assemble_code_segment(code_segment_of(code), codeSegmentOffsets_g)} |->
            IF codeSegmentBytes.st # "ok" THEN failed(codeSegmentBytes.st, codeSegmentBytes.codeSegmentOffsets_g)
            ELSE IF ~contains(codeSegmentBytes.codeSegmentOffsets_g, "entrypoint")
            THEN failed("crash", codeSegmentBytes.codeSegmentOffsets_g)
            ELSE [st |-> "ok",
                  program |-> bytes_of(Magic) \o int_2_bytes(0) \o int_2_bytes(Len(dataSegmentBytes.bytes))
                              \o int_2_bytes(codeSegmentBytes.codeSegmentOffsets_g["entrypoint"])
                              \o dataSegmentBytes.bytes \o codeSegmentBytes.bytes,
                  codeSegmentOffsets_g |-> codeSegmentBytes.codeSegmentOffsets_g]])])

(***************************************************************************)
(* Code generation of the xmlang driver (xmlang/source/Main.cpp).  An       *)
(* instruction is a number: the compile_ functions write the numbers in    *)
(* hexadecimal ("0x00 0x07 0x02") and compile reads the text back with     *)
(* std::hex, which returns the numbers written.                            *)
(***************************************************************************)

Lmx(st, program) == [st |-> st, program |-> program]

RECURSIVE lmx_letters_end(_, _)
lmx_letters_end(value, i) ==
    IF i < Len(value) /\ isalpha(at(value, i)) THEN lmx_letters_end(value, i + 1) ELSE i

\* std::regex_search for (\$\{([a-zA-Z]+)\}): match.str(2) of the first match, "" without one
RECURSIVE lmx_regex_search(_, _)
lmx_regex_search(value, from) ==
    IF from >= Len(value) THEN ""
    ELSE IF at(value, from) = "$" /\ from + 1 < Len(value) /\ at(value, from + 1) = "{"
            /\ lmx_letters_end(value, from + 2) > from + 2
            /\ lmx_letters_end(value, from + 2) < Len(value)
            /\ at(value, lmx_letters_end(value, from + 2)) = "}"
    THEN substr_n(value, from + 2, lmx_letters_end(value, from + 2) - (from + 2))
    ELSE lmx_regex_search(value, from + 1)

lmx_compile_return == <<5>>

lmx_compile_let(letStmt) == <<0, stream_int(letStmt.value.value), 2>>

\* variables holds the names of the lets of the function
lmx_compile_argument(variables, argumentStmt) ==
    IF argumentStmt.value.kind # "Literal" THEN Lmx("crash", <<>>)
    ELSE
    With([name \in {lmx_regex_search(argumentStmt.value.value, 0)} |->
      IF name = "" THEN Lmx("ok", <<>>)
      ELSE IF index_of(variables, name, 0) = Len(variables) THEN Lmx("crash", <<>>)
      ELSE Lmx("ok", <<1, 2, index_of(variables, name, 0), 1>>)])

RECURSIVE lmx_compile_arguments(_, _, _, _)
lmx_compile_arguments(variables, arguments, i, code) ==
    IF i > Len(arguments) THEN Lmx("ok", code)
    ELSE With([r \in {lmx_compile_argument(variables, arguments[i])} |->
           IF r.st # "ok" THEN r
           ELSE lmx_compile_arguments(variables, arguments, i + 1, code \o r.program)])

lmx_compile_call(variables, callStmt) ==
    With([r \in {lmx_compile_arguments(variables, callStmt.arguments, 1, <<>>)} |->
      IF r.st # "ok" THEN r
      ELSE IF callStmt.who # "println" THEN Lmx("crash", <<>>)
      ELSE Lmx("ok", r.program \o <<4, 0>>)])

\* the second loop of compile_function.  A child that is no statement is read
\* through a Statement pointer: what follows depends on ub.
RECURSIVE lmx_compile_statements(_, _, _, _)
lmx_compile_statements(variables, scope, i, code) ==
    IF i > Len(scope) THEN Lmx("ok", code)
    ELSE
    With([r \in {IF scope[i].kind = "Call" THEN lmx_compile_call(variables, scope[i])
                 ELSE IF scope[i].kind = "Let" THEN Lmx("ok", lmx_compile_let(scope[i]))
                 ELSE IF scope[i].kind = "Return" THEN Lmx("ok", lmx_compile_return)
                 ELSE IF scope[i].kind = "Arg" THEN Lmx("ok", <<>>)
                 ELSE IF ub = "crash" THEN Lmx("crash", <<>>)
                 ELSE Lmx("ok", <<>>)} |->
      IF r.st # "ok" THEN r
      ELSE lmx_compile_statements(variables, scope, i + 1, code \o r.program)])

lmx_compile_function(functionDecl) ==
    lmx_compile_statements(let_names(functionDecl.scope, 1), functionDecl.scope, 1, <<>>)

RECURSIVE lmx_compile_program(_, _, _)
lmx_compile_program(scope, i, code) ==
    IF i > Len(scope) THEN Lmx("ok", code)
    ELSE IF scope[i].kind # "Function" THEN lmx_compile_program(scope, i + 1, code)
    ELSE With([r \in {lmx_compile_function(scope[i])} |->
           IF r.st # "ok" THEN r
           ELSE lmx_compile_program(scope, i + 1, code \o r.program)])

lmx_compile(ast) == lmx_compile_program(ast.scope, 1, <<>>)

\* stream.write(&instruction, sizeof(uint8_t)): the low byte of every instruction
lmx_bytes(program) == [i \in 1 .. Len(program) |-> program[i] % 256]

(***************************************************************************)
(* The programs the tools are run on                                       *)
(***************************************************************************)

\* hello world, as the xmlc dialect writes it
HelloWorld ==
    "<program>\n    <function name=\"main\" type=\"none\">\n        <call who=\"println\">\n            <arg>hello, world</arg>\n        </call>\n    </function>\n</program>"

\* a file that ends inside a function, on a line that is no tag
TruncatedLet ==
    "<program>\n    <function name=\"f\" type=\"none\">\n        x let"

XTruncatedLet ==
    "<program>\n    <function name=\"f\" result=\"none\">\n        x let"

\* a file that ends right after the opening tag of a let
TruncatedOpen ==
    "<program>\n    <function name=\"f\" type=\"none\">\n        <let name=\"x\" type=\"number\">"

XTruncatedOpen ==
    "<program>\n    <function name=\"f\" result=\"none\">\n        <let name=\"x\" type=\"number\">"

\* two lets that lack a property, each followed by a well-formed let
TwoErrors ==
    "<program>\n    <function name=\"main\" type=\"none\">\n        <let type=\"number\">7</let>\n        <let name=\"a\" type=\"number\">1</let>\n        <let name=\"x\">7</let>\n        <let name=\"b\" type=\"number\">2</let>\n    </function>\n</program>"

XTwoErrors ==
    "<program>\n    <function name=\"main\" result=\"none\">\n        <let type=\"number\">7</let>\n        <let name=\"a\" type=\"number\">1</let>\n        <let name=\"x\">7</let>\n        <let name=\"b\" type=\"number\">2</let>\n    </function>\n</program>"

\* a call that lacks 'who', written on one line with its argument, before a well-formed let
OneLineCall ==
    "<program>\n    <function name=\"main\" type=\"none\">\n        <call><arg>x</arg></call>\n        <let name=\"b\" type=\"number\">2</let>\n    </function>\n</program>"

XOneLineCall ==
    "<program>\n    <function name=\"main\" result=\"none\">\n        <call><arg>x</arg></call>\n        <let name=\"b\" type=\"number\">2</let>\n    </function>\n</program>"

\* a let with four spaces between its keyword and its first property, and a
\* line indented by two spaces
WideLet ==
    "<program>\n    <function name=\"main\" type=\"none\">\n        <let    name=\"x\" type=\"number\">7</let>\n  </function>\n</program>"

\* a let after a call, printed by a second call
LetAfterCall ==
    "<program>\n    <function name=\"main\" type=\"none\">\n        <call who=\"println\">\n            <arg>hi</arg>\n        </call>\n        <let name=\"x\" type=\"number\">7</let>\n        <call who=\"println\">\n            <arg value=\"${x}\"></arg>\n        </call>\n    </function>\n</program>"

\* a let in a function that declares a parameter
LetWithParameter ==
    "<program>\n    <function name=\"f\" type=\"none\" a=\"number\">\n        <let name=\"x\" type=\"number\">7</let>\n        <call who=\"println\">\n            <arg value=\"${x}\"></arg>\n        </call>\n    </function>\n</program>"

\* a file without a line
EmptyFile ==
    ""

\* a program without declarations
EmptyProgram ==
    "<program>\n</program>"

\* the same on one line
EmptyProgramLine ==
    "<program></program>"

\* a function that calls one declared after it; no main
ForwardCall ==
    "<program>\n    <function name=\"first\" type=\"none\">\n        <call who=\"second\">\n        </call>\n    </function>\n    <function name=\"second\" type=\"none\">\n    </function>\n</program>"

\* a let whose type is neither number nor string
LetBool ==
    "<program>\n    <function name=\"main\" type=\"none\">\n        <let name=\"x\" type=\"bool\">1</let>\n    </function>\n</program>"

\* a user function named like an intrinsic, declared after its caller
UserPrintln ==
    "<program>\n    <function name=\"main\" type=\"none\">\n        <call who=\"println\">\n            <arg>bye</arg>\n        </call>\n    </function>\n    <function name=\"println\" type=\"none\">\n    </function>\n</program>"

\* a function whose return is not its last statement
ReturnFirst ==
    "<program>\n    <function name=\"main\" type=\"none\">\n        <return></return>\n        <call who=\"println\">\n            <arg>late</arg>\n        </call>\n    </function>\n</program>"

\* a number let, loaded back as an interpolated argument
LetNumber ==
    "<program>\n    <function name=\"main\" type=\"none\">\n        <let name=\"x\" type=\"number\">7</let>\n        <call who=\"println\">\n            <arg value=\"${x}\"></arg>\n        </call>\n    </function>\n</program>"

\* a function tag without name
MissingName ==
    "<program>\n    <function type=\"none\">\n    </function>\n</program>"

\* the self-closing let the language description shows
SelfClosingLet ==
    "<program>\n    <function name=\"main\" type=\"none\">\n        <let name=\"x\" type=\"number\" value=\"7\"/>\n    </function>\n</program>"

\* hello world, as the xmlang dialect writes it
XHelloWorld ==
    "<program>\n    <function name=\"main\" result=\"none\">\n        <call who=\"println\">\n            <arg value=\"hello, world\"></arg>\n        </call>\n    </function>\n</program>"

\* self-closing let, arg and return
XSelfClosing ==
    "<program>\n    <function name=\"main\" result=\"none\">\n        <let name=\"x\" type=\"number\" value=\"7\"/>\n        <call who=\"println\">\n            <arg value=\"${x}\"/>\n        </call>\n        <return/>\n    </function>\n</program>"

\* a function whose return is not its last statement
XReturnFirst ==
    "<program>\n    <function name=\"helper\" result=\"none\">\n        <return></return>\n        <call who=\"println\">\n            <arg value=\"late\"></arg>\n        </call>\n    </function>\n</program>"

\* a class with a ctor tag only
ClassCtor ==
    "<program>\n    <class name=\"P\">\n        <ctor>\n        </ctor>\n    </class>\n</program>"

\* a class without members
ClassEmpty ==
    "<program>\n    <class name=\"P\">\n    </class>\n</program>"

\* a class with two ctor tags and two dtor tags
ClassTwoCtors ==
    "<program>\n    <class name=\"P\">\n        <ctor>\n        </ctor>\n        <ctor>\n        </ctor>\n        <dtor>\n        </dtor>\n        <dtor>\n        </dtor>\n    </class>\n</program>"

\* a class whose name is not the first property
ClassNameSecond ==
    "<program>\n    <class inherits=\"B\" name=\"P\">\n    </class>\n</program>"

\* a class whose ctor is a function tag with a parameter
ClassCtorFunction ==
    "<program>\n    <class name=\"P\">\n        <function name=\"ctor\" result=\"none\" size=\"number\">\n        </function>\n    </class>\n</program>"

\* a class tag with a property besides name, and no inherits
ClassExtraProperty ==
    "<program>\n    <class name=\"P\" final=\"yes\">\n    </class>\n</program>"

\* a function whose name is not its first property
NameSecond ==
    "<program>\n    <function type=\"none\" name=\"main\">\n    </function>\n</program>"

\* a program tag closed by the closing tag of another keyword
MismatchedClose ==
    "<program>\n</function>"

\* a function tag closed by the closing tag of a call
MismatchedFunction ==
    "<program>\n    <function name=\"main\" type=\"none\">\n    </call>\n</program>"

\* tags that lack a property their node requires
MissingProperties ==
    "<program>\n    <function name=\"main\" type=\"none\">\n        <let type=\"number\">7</let>\n        <let name=\"x\">7</let>\n        <call>\n        </call>\n    </function>\n    <function result=\"none\">\n    </function>\n</program>"

\* a function of type number without return
NoReturn ==
    "<program>\n    <function name=\"f\" type=\"number\">\n    </function>\n</program>"

\* a text argument with an interpolation inside, then another text argument
InterpolatedArg ==
    "<program>\n    <function name=\"main\" type=\"none\">\n        <let name=\"x\" type=\"number\">7</let>\n        <call who=\"println\">\n            <arg value=\"x is ${x}\"></arg>\n        </call>\n        <call who=\"println\">\n            <arg>bye</arg>\n        </call>\n    </function>\n</program>"

\* two text arguments
TwoTexts ==
    "<program>\n    <function name=\"main\" type=\"none\">\n        <call who=\"println\">\n            <arg>hi</arg>\n        </call>\n        <call who=\"println\">\n            <arg>bye</arg>\n        </call>\n    </function>\n</program>"

\* a function of type number that returns an integer literal
ReturnNumber ==
    "<program>\n    <function name=\"main\" type=\"number\">\n        <return>7</return>\n    </function>\n</program>"

\* an integer literal as argument
ArgNumber ==
    "<program>\n    <function name=\"main\" type=\"none\">\n        <call who=\"println\">\n            <arg>7</arg>\n        </call>\n    </function>\n</program>"

\* main calls a function declared before it
CallEarlier ==
    "<program>\n    <function name=\"helper\" type=\"none\">\n    </function>\n    <function name=\"main\" type=\"none\">\n        <call who=\"helper\">\n        </call>\n    </function>\n</program>"

\* main calls a function declared after it
CallLater ==
    "<program>\n    <function name=\"main\" type=\"none\">\n        <call who=\"helper\">\n        </call>\n    </function>\n    <function name=\"helper\" type=\"none\">\n    </function>\n</program>"

XmlcSources == {CallEarlier, CallLater, ReturnNumber, ArgNumber, InterpolatedArg, TwoTexts, LetAfterCall, LetWithParameter, WideLet, TwoErrors, OneLineCall, TruncatedOpen, TruncatedLet, EmptyFile, EmptyProgramLine, NameSecond, HelloWorld, EmptyProgram, ForwardCall, LetBool, UserPrintln, ReturnFirst, LetNumber, MissingName, SelfClosingLet,
                MismatchedClose, MismatchedFunction, MissingProperties,
                NoReturn}

\* a call of main at program scope, and no function main
CallMainOnly ==
    "<program>\n    <call who=\"main\">\n    </call>\n</program>"

\* a function that calls another function of the program
XCallHelper ==
    "<program>\n    <function name=\"main\" result=\"none\">\n        <call who=\"helper\">\n        </call>\n    </function>\n    <function name=\"helper\" result=\"none\">\n    </function>\n</program>"

\* tags that lack a property their node requires, in the xmlang dialect
XMissingProperties ==
    "<program>\n    <function name=\"main\" result=\"none\">\n        <let type=\"number\">7</let>\n        <let name=\"x\">7</let>\n        <call>\n        </call>\n    </function>\n    <function result=\"none\">\n    </function>\n</program>"

\* a function whose result and name are written in that order
XNameSecond ==
    "<program>\n    <function result=\"none\" name=\"f\">\n    </function>\n</program>"

\* a function of result number without return
XNoReturn ==
    "<program>\n    <function name=\"f\" result=\"number\">\n    </function>\n</program>"

XmlangSources == {WideLet, XTwoErrors, XOneLineCall, XTruncatedOpen, XTruncatedLet, EmptyFile, CallMainOnly, XHelloWorld, XSelfClosing, XReturnFirst, ClassCtor, ClassEmpty, ClassTwoCtors, ClassNameSecond, ClassCtorFunction, ClassExtraProperty,
                  MismatchedClose, XCallHelper, XMissingProperties, XNameSecond,
                  XNoReturn}

(***************************************************************************)
(* The state machine: one process of xmlc (tokenize, parse, compile,       *)
(* assemble) or of xmlang (tokenize, parse), running the pipeline on one   *)
(* source after the other.  The file-scope variables of the code outlive   *)
(* each run of the pipeline.                                               *)
(***************************************************************************)

VARIABLES
    tool,                  \* "xmlc" or "xmlang": which program this process is
    pc,                    \* where the pipeline stands
    runs,                  \* how many sources were taken up
    source,                \* the text being processed
    tokens,                \* what tokenize returned
    ast,                   \* what parse returned
    text,                  \* what compile returned
    image,                 \* what assemble returned
    hadAnError_g,          \* Parser.cpp
    compiler_g,            \* Compiler.cpp: dataSegmentBytes and dataSegmentOffsets_g
    codeSegmentOffsets_g,  \* Assembler.cpp
    assembled,             \* every (text, image) pair assemble produced so far
    lmx,                   \* what the compile of the xmlang driver returned
    outfile,               \* the output file of the xmlang driver
    parseCursor            \* the parser's index into the reversed tokens

vars == <<ub, tool, pc, runs, source, tokens, ast, text, image, hadAnError_g,
          compiler_g, codeSegmentOffsets_g, assembled, lmx, outfile, parseCursor>>

MaxRuns == 2

Nothing == [st |-> "none"]

Init ==
    /\ ub \in UbOutcomes
    /\ tool \in {"xmlc", "xmlang"}
    /\ pc = "idle"
    /\ runs = 0
    /\ source = ""
    /\ tokens = Nothing
    /\ ast = Nothing
    /\ text = Nothing
    /\ image = Nothing
    /\ hadAnError_g = FALSE
    /\ compiler_g = FreshCompiler
    /\ codeSegmentOffsets_g = EmptyMap
    /\ assembled = {}
    /\ lmx = Nothing
    /\ outfile = [exists |-> FALSE, bytes |-> <<>>]
    /\ parseCursor = 0

Sources == IF tool = "xmlc" THEN XmlcSources ELSE XmlangSources

\* what a call leaves the process in
after(st, next) == IF st = "ok" THEN next ELSE IF st = "err" THEN "failed" ELSE "crashed"

Tokenize ==
    /\ pc \in {"idle", "failed", "done"}
    /\ runs < MaxRuns
    /\ \E src \in Sources :
        /\ source' = src
        /\ tokens' = [st |-> "ok"] @@ (IF tool = "xmlc" THEN xmlc_tokenize(src) ELSE tokenize(src))
    /\ runs' = runs + 1
    /\ pc' = "lexed"
    /\ ast' = Nothing /\ text' = Nothing /\ image' = Nothing /\ lmx' = Nothing
    /\ parseCursor' = 0
    /\ UNCHANGED <<ub, tool, hadAnError_g, compiler_g, codeSegmentOffsets_g, assembled, outfile>>

Parse ==
    /\ pc = "lexed"
    /\ ast' = IF tool = "xmlc" THEN parse(tokens.tokens, hadAnError_g)
              ELSE xmlang_parse(tokens.tokens, hadAnError_g)
    /\ hadAnError_g' = ast'.hadAnError
    /\ pc' = after(ast'.st, "parsed")
    /\ parseCursor' = ast'.cursor
    /\ UNCHANGED <<ub, tool, runs, source, tokens, text, image, compiler_g, codeSegmentOffsets_g, assembled, lmx, outfile>>

Compile ==
    /\ tool = "xmlc"
    /\ pc = "parsed"
    /\ \E r \in {compile(ast.node, compiler_g)} :
        /\ text' = [st |-> r.st, code |-> r.code]
        /\ compiler_g' = r.g
        /\ pc' = after(r.st, "compiled")
    /\ UNCHANGED <<parseCursor, ub, tool, runs, source, tokens, ast, image, hadAnError_g, codeSegmentOffsets_g, assembled, lmx, outfile>>

Assemble ==
    /\ pc = "compiled"
    /\ \E r \in {assemble(text.code, codeSegmentOffsets_g)} :
        /\ image' = [st |-> r.st, program |-> r.program]
        /\ codeSegmentOffsets_g' = r.codeSegmentOffsets_g
        /\ pc' = after(r.st, "done")
        /\ assembled' = IF r.st = "ok" THEN assembled \union {<<text.code, r.program>>} ELSE assembled
    /\ UNCHANGED <<parseCursor, ub, tool, runs, source, tokens, ast, text, hadAnError_g, compiler_g, lmx, outfile>>

\* the xmlang driver after parse: std::ofstream stream(filename, std::ios::binary)
OpenOutput ==
    /\ tool = "xmlang"
    /\ pc = "parsed"
    /\ outfile' = [exists |-> TRUE, bytes |-> <<>>]
    /\ pc' = "opened"
    /\ UNCHANGED <<parseCursor, ub, tool, runs, source, tokens, ast, text, image, hadAnError_g,
                   compiler_g, codeSegmentOffsets_g, assembled, lmx>>

\* for (auto instruction : TRY(compile(ast))) stream.write(...)
Emit ==
    /\ pc = "opened"
    /\ \E r \in {lmx_compile(ast.node)} :
        /\ lmx' = r
        /\ outfile' = IF r.st = "ok" THEN [outfile EXCEPT !.bytes = lmx_bytes(r.program)] ELSE outfile
        /\ pc' = after(r.st, "done")
    /\ UNCHANGED <<parseCursor, ub, tool, runs, source, tokens, ast, text, image, hadAnError_g,
                   compiler_g, codeSegmentOffsets_g, assembled>>

Next == Tokenize \/ Parse \/ Compile \/ Assemble \/ OpenOutput \/ Emit

Spec == Init /\ [][Next]_vars

(***************************************************************************)
(* The parser one step at a time: from the cursor parse starts with, any   *)
(* of the parser's functions is applied at the cursor the last one left.   *)
(***************************************************************************)

WalkSources ==
    IF tool = "xmlc" THEN {HelloWorld, LetNumber, MissingProperties, MismatchedFunction, TruncatedLet}
    ELSE {XHelloWorld, ClassCtor, XMissingProperties, XTruncatedLet}

TokenTypes ==
    IF tool = "xmlc"
    THEN {"LEFT_ANGLE", "RIGHT_ANGLE", "DOUBLE_QUOTE", "SINGLE_QUOTE", "SLASH", "EQUAL", "KEYWORD", "LITERAL", "PROPERTY", "END_OF_FILE"}
    ELSE {"LEFT_ANGLE", "RIGHT_ANGLE", "QUOTE", "SLASH", "EQUAL", "KEYWORD", "LITERAL", "IDENTIFIER", "END_OF_FILE"}

NodeParsers ==
    IF tool = "xmlc"
    THEN {"parse_opening_tag", "parse_closing_tag", "parse_expression", "parse_arg", "parse_call", "parse_let",
          "parse_ret", "parse_if", "parse_statement", "parse_function", "parse_declaration", "parse_program"}
    ELSE {"parse_opening_tag", "parse_closing_tag", "parse_expression", "parse_argument", "parse_call", "parse_let",
          "parse_return", "parse_statement", "parse_function", "parse_ctor", "parse_dtor", "parse_class",
          "parse_declaration", "parse_program"}

\* the call of a parser function at a cursor; the tag of a tag parser is the token after the cursor
node_parser(name, toks, c) ==
    IF tool = "xmlc" THEN
        CASE name = "parse_opening_tag" -> parse_opening_tag(toks, c, <<>>, peek(toks, c, 1).data)
          [] name = "parse_closing_tag" -> parse_closing_tag(toks, c, <<>>, peek(toks, c, 1))
          [] name = "parse_expression"  -> parse_expression(toks, c, <<>>)
          [] name = "parse_arg"         -> parse_arg(toks, c, <<>>)
          [] name = "parse_call"        -> parse_call(toks, c, <<>>)
          [] name = "parse_let"         -> parse_let(toks, c, <<>>)
          [] name = "parse_ret"         -> parse_ret(toks, c, <<>>)
          [] name = "parse_if"          -> parse_if(toks, c, <<>>)
          [] name = "parse_statement"   -> parse_statement(toks, c, <<>>)
          [] name = "parse_function"    -> parse_function(toks, c, <<>>)
          [] name = "parse_declaration" -> parse_declaration(toks, c, <<>>)
          [] name = "parse_program"     -> parse_program(toks, c, <<>>)
    ELSE
        CASE name = "parse_opening_tag" -> xmlang_parse_opening_tag(toks, c, <<>>, peek(toks, c, 1).data)
          [] name = "parse_closing_tag" -> parse_closing_tag(toks, c, <<>>, peek(toks, c, 1))
          [] name = "parse_expression"  -> xmlang_parse_expression(toks, c, <<>>)
          [] name = "parse_argument"    -> xmlang_parse_argument(toks, c, <<>>)
          [] name = "parse_call"        -> xmlang_parse_call(toks, c, <<>>)
          [] name = "parse_let"         -> xmlang_parse_let(toks, c, <<>>)
          [] name = "parse_return"      -> xmlang_parse_return(toks, c, <<>>)
          [] name = "parse_statement"   -> xmlang_parse_statement(toks, c, <<>>)
          [] name = "parse_function"    -> xmlang_parse_function(toks, c, <<>>)
          [] name = "parse_ctor"        -> parse_ctor(toks, c, <<>>)
          [] name = "parse_dtor"        -> parse_dtor(toks, c, <<>>)
          [] name = "parse_class"       -> parse_class(toks, c, <<>>)
          [] name = "parse_declaration" -> xmlang_parse_declaration(toks, c, <<>>)
          [] name = "parse_program"     -> xmlang_parse_program(toks, c, <<>>)

\* the last step taken: which function, how it returned, and whether a test matched
Step(op, st, matched) == [st |-> st, op |-> op, matched |-> matched]

WalkInit ==
    /\ ub \in UbOutcomes
    /\ tool \in {"xmlc", "xmlang"}
    /\ pc = "lexed"
    /\ runs = 1
    /\ source \in WalkSources
    /\ tokens = [st |-> "ok"] @@ (IF tool = "xmlc" THEN xmlc_tokenize(source) ELSE tokenize(source))
    /\ parseCursor = Len(tokens.tokens) - 1
    /\ ast = Nothing
    /\ text = Nothing
    /\ image = Nothing
    /\ hadAnError_g = FALSE
    /\ compiler_g = FreshCompiler
    /\ codeSegmentOffsets_g = EmptyMap
    /\ assembled = {}
    /\ lmx = Nothing
    /\ outfile = [exists |-> FALSE, bytes |-> <<>>]

\* expect(tokens, cursor, type) and peek(tokens, cursor): the cursor is passed by value
Look ==
    /\ pc = "lexed"
    /\ in_range(tokens.tokens, parseCursor)
    /\ \E type \in TokenTypes :
        ast' = Step("expect", "ok", expect(tokens.tokens, parseCursor, type) /\ peek(tokens.tokens, parseCursor, 0).type = type)
    /\ UNCHANGED <<parseCursor, ub, tool, pc, runs, source, tokens, text, image, hadAnError_g,
                   compiler_g, codeSegmentOffsets_g, assembled, lmx, outfile>>

\* advance(tokens, cursor)
Advance ==
    /\ pc = "lexed"
    /\ in_range(tokens.tokens, parseCursor)
    /\ parseCursor' = advance(tokens.tokens, parseCursor).cursor
    /\ ast' = Step("advance", "ok", TRUE)
    /\ UNCHANGED <<ub, tool, pc, runs, source, tokens, text, image, hadAnError_g,
                   compiler_g, codeSegmentOffsets_g, assembled, lmx, outfile>>

\* advance(tokens, cursor, type) and advance(tokens, cursor, type, data)
AdvanceIf ==
    /\ pc = "lexed"
    /\ parseCursor >= -1
    /\ \E type \in TokenTypes, data \in {"", "let", "function", "program"} :
        \E r \in {IF data = "" THEN advance_type(tokens.tokens, parseCursor, type)
                  ELSE advance_type_data(tokens.tokens, parseCursor, type, data)} :
            /\ parseCursor' = r.cursor
            /\ ast' = Step("advance_if", IF r.ok THEN "ok" ELSE "err", r.ok)
    /\ UNCHANGED <<ub, tool, pc, runs, source, tokens, text, image, hadAnError_g,
                   compiler_g, codeSegmentOffsets_g, assembled, lmx, outfile>>

\* synchronize(tokens, tag, cursor), the tag being a keyword of the stream
Synchronize ==
    /\ pc = "lexed"
    /\ in_range(tokens.tokens, parseCursor)
    /\ \E i \in 1 .. Len(tokens.tokens) :
        /\ tokens.tokens[i].type = "KEYWORD"
        /\ parseCursor' = synchronize(tokens.tokens, tokens.tokens[i], parseCursor)
        /\ ast' = Step("synchronize", "ok", parseCursor' # parseCursor)
    /\ UNCHANGED <<ub, tool, pc, runs, source, tokens, text, image, hadAnError_g,
                   compiler_g, codeSegmentOffsets_g, assembled, lmx, outfile>>

\* a node parser called at the cursor, as the scope loops call it (cursor > 0)
ParseNode ==
    /\ pc = "lexed"
    /\ parseCursor > 0
    /\ \E name \in NodeParsers :
        \E r \in {node_parser(name, tokens.tokens, parseCursor)} :
            /\ parseCursor' = r.cursor
            /\ ast' = Step(name, r.st, r.st = "ok")
            /\ hadAnError_g' = (hadAnError_g \/ has_error(r.diags))
            /\ pc' = IF r.st \in {"ok", "err"} THEN "lexed" ELSE "crashed"
    /\ UNCHANGED <<ub, tool, runs, source, tokens, text, image,
                   compiler_g, codeSegmentOffsets_g, assembled, lmx, outfile>>

WalkNext == Look \/ Advance \/ AdvanceIf \/ Synchronize \/ ParseNode

WalkSpec == WalkInit /\ [][WalkNext]_vars

(***************************************************************************)
(* One instruction of the code segment at a time: the text of a load, a    *)
(* store or a push is in source, what assemble_instruction makes of it in  *)
(* image.                                                                  *)
(***************************************************************************)

MaxOffset == 24

\* offsets: the small ones, and the ones around the byte boundaries of 32 bits
Offsets == 0 .. MaxOffset \union {99, 100, 255, 256, 65535, 65536, 16777215, 16777216, 2147483647}

\* the operand words the compiler writes in front of an offset
Places == [load |-> {".data", "scope", "global"}, store |-> {"scope", "global"}]

\* the text of an instruction, as compile writes it
instruction_text(opcode, place, n) ==
    IF opcode = "push" THEN "push " \o to_string(n)
    ELSE opcode \o " " \o place \o "[" \o to_string(n) \o "]"

InstructionInit ==
    /\ ub \in UbOutcomes
    /\ tool = "xmlc"
    /\ pc = "compiled"
    /\ runs = 1
    /\ \E n \in Offsets :
          \/ source = instruction_text("push", "", n)
          \/ \E opcode \in DOMAIN Places : \E place \in Places[opcode] : source = instruction_text(opcode, place, n)
    /\ tokens = Nothing
    /\ ast = Nothing
    /\ text = [st |-> "ok", code |-> source]
    /\ image = Nothing
    /\ hadAnError_g = FALSE
    /\ compiler_g = FreshCompiler
    /\ codeSegmentOffsets_g = EmptyMap
    /\ assembled = {}
    /\ lmx = Nothing
    /\ outfile = [exists |-> FALSE, bytes |-> <<>>]
    /\ parseCursor = 0

\* assemble_instruction on the text
AssembleInstruction ==
    /\ pc = "compiled"
    /\ \E r \in {assemble_instruction(codeSegmentOffsets_g, text.code)} :
        /\ image' = [st |-> r.st, program |-> r.bytes]
        /\ pc' = after(r.st, "assembled")
    /\ UNCHANGED <<ub, tool, runs, source, tokens, ast, text, hadAnError_g, compiler_g, codeSegmentOffsets_g,
                   assembled, lmx, outfile, parseCursor>>

InstructionNext == AssembleInstruction

InstructionSpec == InstructionInit /\ [][InstructionNext]_vars

(***************************************************************************)
(* parse_opening_tag of xmlc on the token sequences of one opening tag     *)
(* with one property, over the token kinds of xmlc/Lexer.hpp               *)
(***************************************************************************)

QuoteKinds == {"DOUBLE_QUOTE", "SINGLE_QUOTE"}

\* the tokens of  <keyword property=OPEN value CLOSE>  in source order, a slot
\* of "" being left out, then END_OF_FILE; reversed as tokenize returns them
tag_tokens(keyword, property, open, value, close) ==
    With([slots \in {<< <<"<", "LEFT_ANGLE">>, <<keyword, "KEYWORD">>, <<property, "PROPERTY">>,
                       <<"=", "EQUAL">>,
                       <<IF open = "DOUBLE_QUOTE" THEN "\"" ELSE "'", open>>,
                       <<value, IF value = "" THEN "" ELSE "LITERAL">>,
                       <<IF close = "DOUBLE_QUOTE" THEN "\"" ELSE "'", close>>,
                       <<">", "RIGHT_ANGLE">>, <<"EOF", "END_OF_FILE">> >>} |->
      With([kept \in {SelectSeq(slots, LAMBDA slot : slot[2] # "")} |->
        Reverse([i \in 1 .. Len(kept) |->
                    [data |-> kept[i][1], type |-> kept[i][2], line |-> 0, column |-> i, depth |-> 0]])])])

TagInit ==
    /\ ub \in UbOutcomes
    /\ tool = "xmlc"
    /\ pc = "lexed"
    /\ runs = 1
    /\ \E keyword \in {"function", "let"}, property \in {"name", "type"},
          open \in QuoteKinds \union {""}, value \in {"main", "none", ""},
          close \in QuoteKinds \union {""} :
        /\ source = keyword
        /\ tokens = [st |-> "ok", tokens |-> tag_tokens(keyword, property, open, value, close), threw |-> FALSE]
    /\ ast = Nothing
    /\ text = Nothing
    /\ image = Nothing
    /\ hadAnError_g = FALSE
    /\ compiler_g = FreshCompiler
    /\ codeSegmentOffsets_g = EmptyMap
    /\ assembled = {}
    /\ lmx = Nothing
    /\ outfile = [exists |-> FALSE, bytes |-> <<>>]
    /\ parseCursor = 0

\* parse_opening_tag(tokens, cursor, name) with the cursor on the last index
OpeningTag ==
    /\ pc = "lexed"
    /\ ast' = parse_opening_tag(tokens.tokens, Len(tokens.tokens) - 1, <<>>, source)
    /\ hadAnError_g' = (ast'.diags # <<>>)
    /\ pc' = after(ast'.st, "parsed")
    /\ parseCursor' = ast'.cursor
    /\ UNCHANGED <<ub, tool, runs, source, tokens, text, image, compiler_g, codeSegmentOffsets_g, assembled, lmx, outfile>>

TagNext == OpeningTag

TagSpec == TagInit /\ [][TagNext]_vars

(***************************************************************************)
(* Properties                                                              *)
(***************************************************************************)

\* the unsigned number four bytes encode, most significant byte first
BigEndian(bytes) == ((bytes[1] * 256 + bytes[2]) * 256 + bytes[3]) * 256 + bytes[4]

Finished == pc \in {"done", "failed", "crashed"}

Parsed == ast # Nothing /\ ast.st = "ok"

\* C1: for every AST parse returns without error, generating code and assembling the
\* generated text succeeds: once the run is over, assemble has returned an image.
C1_AssembleSucceeds ==
    (tool = "xmlc" /\ Parsed /\ Finished) => (image # Nothing /\ image.st = "ok")

\* what assemble makes of the given text when its offset map is empty
FreshImage(code) == assemble(code, EmptyMap)

\* C2: every image assemble returns starts with the 22 characters of the magic text,
\* then 0, then the length of the assembled data segment, then the offset at which the
\* entrypoint block of the assembled text starts (all big-endian, 4 bytes), and carries
\* the data bytes followed by the code bytes from offset 34 on.
C2_ImageLayout ==
    (image # Nothing /\ image.st = "ok") =>
        LET program == image.program
            data == assemble_data_segment(data_segment_of(text.code)).bytes
            fresh == assemble_code_segment(code_segment_of(text.code), EmptyMap)
        IN  /\ Len(program) >= 34
            /\ SubSeq(program, 1, 22) = bytes_of("This is a kubo program")
            /\ BigEndian(SubSeq(program, 23, 26)) = 0
            /\ BigEndian(SubSeq(program, 27, 30)) = Len(data)
            /\ BigEndian(SubSeq(program, 31, 34)) = fresh.codeSegmentOffsets_g["entrypoint"]
            /\ SubSeq(program, 35, 34 + Len(data)) = data
            /\ Len(program) = 34 + Len(data) + Len(fresh.bytes)

\* C3: compiling and assembling a program after any earlier compilations of the process
\* gives the text and the image that a fresh process gives for it.
C3_FreshEachCompilation ==
    /\ (text # Nothing /\ text.st = "ok") => text.code = compile(ast.node, FreshCompiler).code
    /\ (image # Nothing /\ image.st = "ok") =>
            image.program = FreshImage(compile(ast.node, FreshCompiler).code).program

\* C4: assemble returns the same bytes whenever it is given the same text.
C4_AssembleDeterministic ==
    \A a \in assembled : \A b \in assembled : a[1] = b[1] => a[2] = b[2]

\* the AST of hello world: function main of result none whose body is one call of
\* println with the one argument 'hello, world' (and what parse adds to it)
IsCallOf(node, who, argument) ==
    /\ node.kind = "Call" /\ node.who = who /\ Len(node.arguments) = 1
    /\ node.arguments[1].kind = "Arg" /\ node.arguments[1].value = LiteralExpr(argument)

IsHelloWorld ==
    /\ tool = "xmlc" /\ Parsed
    /\ Len(ast.node.scope) >= 1
    /\ \A i \in 1 .. Len(ast.node.scope) : ast.node.scope[i].kind = "Function" => i = 1
    /\ ast.node.scope[1].kind = "Function"
    /\ ast.node.scope[1].name = "main" /\ ast.node.scope[1].type = "none"
    /\ Len(ast.node.scope[1].scope) >= 1
    /\ IsCallOf(ast.node.scope[1].scope[1], "println", "hello, world")
    /\ \A i \in 2 .. Len(ast.node.scope[1].scope) : ast.node.scope[1].scope[i].kind = "Return"

HelloAssemblyDocumented ==
    ".data\n\n12 hello, world\n\n.code\n\nfunction main\n\nload .data[0]\ncall println\n\nentrypoint\n\ncall main\nret"

HelloAssembly ==
    ".data\n\n12 hello, world\n\n.code\n\nfunction main\n\nload .data[0]\ncall println\nret\n\nentrypoint\n\ncall main\nret"

has_kind(scope, kind) == \E i \in 1 .. Len(scope) : scope[i].kind = kind

\* C6: a source written with self-closing tags and values in attributes, digits included,
\* is tokenized and parsed without error diagnostic into its Let, Arg and Return nodes.
C6_SelfClosingAccepted ==
    (source \in {SelfClosingLet, XSelfClosing} /\ pc \notin {"idle", "lexed"}) =>
        /\ ast.st = "ok" /\ ~has_error(ast.diags)
        /\ has_kind(ast.node.scope[1].scope, "Let")

\* the functions of the AST: those of the program scope and those of its classes
RECURSIVE functions_of(_, _)
functions_of(scope, i) ==
    IF i > Len(scope) THEN {}
    ELSE (IF scope[i].kind = "Function" THEN {scope[i]}
          ELSE IF scope[i].kind = "Class" THEN functions_of(scope[i].scope, 1)
          ELSE {})
         \union functions_of(scope, i + 1)

result_of(function) == IF tool = "xmlc" THEN function.type ELSE function.result

\* C7: every function tag that parse accepts with result 'none' has a Return as the
\* last element of its scope.
C7_ReturnLast ==
    Parsed =>
        \A f \in functions_of(ast.node.scope, 1) :
            (f.token # NoToken /\ result_of(f) = "none") =>
                (Len(f.scope) > 0 /\ f.scope[Len(f.scope)].kind = "Return")

declares_main(scope) == \E i \in 1 .. Len(scope) : scope[i].kind = "Function" /\ scope[i].name = "main"

\* a call the parser made up carries no token
is_synthesized_call(node) == node.kind = "Call" /\ node.who = "main" /\ node.token = NoToken

ends_with_call_of_main(scope) == Len(scope) > 0 /\ is_synthesized_call(scope[Len(scope)])

\* C8: the program scope ends with a synthesized call of main exactly if it holds a
\* function named main; without such a function it holds no synthesized call at all.
C8_MainCalled ==
    Parsed =>
        /\ ends_with_call_of_main(ast.node.scope) <=> declares_main(ast.node.scope)
        /\ ~declares_main(ast.node.scope) =>
                \A i \in 1 .. Len(ast.node.scope) : ~is_synthesized_call(ast.node.scope[i])

\* C8 witness: a parsed program with a function main, ending with the synthesized call
C8_MainCalledSeen ==
    Parsed /\ declares_main(ast.node.scope) /\ ends_with_call_of_main(ast.node.scope)

classes_of(scope) == {scope[i] : i \in {j \in 1 .. Len(scope) : scope[j].kind = "Class"}}

count_functions(scope, name) ==
    Cardinality({i \in 1 .. Len(scope) : scope[i].kind = "Function" /\ scope[i].name = name})

\* C9: every class the parser accepts holds exactly one function named ctor and exactly
\* one named dtor.
C9_OneCtorOneDtor ==
    (tool = "xmlang" /\ Parsed) =>
        \A c \in classes_of(ast.node.scope) :
            count_functions(c.scope, "ctor") = 1 /\ count_functions(c.scope, "dtor") = 1

\* every class of the sources is declared with name="P"
DeclaredClassName == "P"

\* C10: the first parameter of every ctor and dtor of a class is (self, N), N being the
\* value of the name property of the class tag.
C10_SelfFirst ==
    (tool = "xmlang" /\ Parsed) =>
        \A c \in classes_of(ast.node.scope) :
            \A i \in 1 .. Len(c.scope) :
                (c.scope[i].kind = "Function" /\ c.scope[i].name \in {"ctor", "dtor"}) =>
                    /\ Len(c.scope[i].parameters) >= 1
                    /\ c.scope[i].parameters[1] = <<"self", DeclaredClassName>>

\* parse has returned, to the first call of the process
Returned == runs = 1 /\ ast # Nothing /\ ast.st \in {"ok", "err"}

\* C11: a call of parse during which an error diagnostic was emitted returns the
\* 'I give up' error, and one without error diagnostic returns the AST.
C11_GiveUp ==
    Returned =>
        /\ has_error(ast.diags) => (ast.st = "err" /\ ast.error = GiveUp)
        /\ ~has_error(ast.diags) => (ast.st = "ok" /\ ast.node.kind = "Program")

\* C12: in the first run of the driver the output file exists only once tokenizing,
\* parsing and code generation have all succeeded.
C12_OutputAfterSuccess ==
    (tool = "xmlang" /\ runs = 1 /\ outfile.exists) =>
        (tokens.st = "ok" /\ ast.st = "ok" /\ lmx # Nothing /\ lmx.st = "ok")

\* cursor stands at the '<' of a closing tag
is_closing_at(toks, cursor) ==
    /\ cursor >= 2 /\ cursor < Len(toks)
    /\ peek(toks, cursor, 0).type = "LEFT_ANGLE"
    /\ peek(toks, cursor, 1).type = "SLASH"
    /\ peek(toks, cursor, 2).type = "KEYWORD"

\* the keyword tokens of the opening tags of a token vector (kept in reverse order)
opening_tags(toks) ==
    {toks[j] : j \in {k \in 1 .. Len(toks) - 1 : toks[k].type = "KEYWORD" /\ toks[k + 1].type = "LEFT_ANGLE"}}

closing_tags(toks) ==
    {toks[j] : j \in {k \in 1 .. Len(toks) - 1 : toks[k].type = "KEYWORD" /\ toks[k + 1].type = "SLASH"}}

mismatches(diags) == {i \in 1 .. Len(diags) : diags[i].error = "ENCLOSING_TOKEN_MISMATCH"}

\* C13: called at a closing tag whose keyword differs from the keyword of the opening
\* tag it is given, parse_closing_tag returns an error and has emitted exactly one
\* diagnostic, an ENCLOSING_TOKEN_MISMATCH error whose first span is the opening tag
\* and whose second span is the closing tag; every such diagnostic of a parse names an
\* opening tag and then a closing tag of the source, sets the error flag and makes
\* parse return an error.
C13_ClosingMismatch ==
    /\ tokens # Nothing =>
            \A cursor \in 0 .. Len(tokens.tokens) - 1 : \A tag \in opening_tags(tokens.tokens) :
                (is_closing_at(tokens.tokens, cursor) /\ peek(tokens.tokens, cursor, 2).data # tag.data) =>
                    LET r == parse_closing_tag(tokens.tokens, cursor, <<>>, tag) IN
                    /\ r.st = "err" /\ r.node = NullNode
                    /\ r.diags = <<Diag("error", "ENCLOSING_TOKEN_MISMATCH",
                                         <<tag, peek(tokens.tokens, cursor, 2)>>, "this tag")>>
                    /\ has_error(r.diags)
    /\ (ast # Nothing /\ ast.st \in {"ok", "err"}) =>
            \A i \in mismatches(ast.diags) :
                /\ ast.diags[i].severity = "error" /\ Len(ast.diags[i].issues) = 2
                /\ ast.diags[i].issues[1] \in opening_tags(tokens.tokens)
                /\ ast.diags[i].issues[2] \in closing_tags(tokens.tokens)
                /\ ast.diags[i].issues[1].data # ast.diags[i].issues[2].data
                /\ ast.hadAnError /\ hadAnError_g /\ ast.st = "err"

\* C13 witness: a parse ran into a closing tag of another keyword
C13_MismatchSeen ==
    /\ ast # Nothing /\ ast.st = "err" /\ mismatches(ast.diags) # {}
    /\ \E cursor \in 0 .. Len(tokens.tokens) - 1 : \E tag \in opening_tags(tokens.tokens) :
            is_closing_at(tokens.tokens, cursor) /\ peek(tokens.tokens, cursor, 2).data # tag.data

\* cursor stands at the '<' of an opening tag of that keyword
is_opening_at(toks, cursor, keyword) ==
    /\ cursor >= 1 /\ cursor < Len(toks)
    /\ peek(toks, cursor, 0).type = "LEFT_ANGLE"
    /\ peek(toks, cursor, 1).type = "KEYWORD" /\ peek(toks, cursor, 1).data = keyword

\* the opening tag and the node the parsers of this tool make of the tag at cursor
opening_at(toks, cursor, keyword) ==
    IF tool = "xmlc" THEN parse_opening_tag(toks, cursor, <<>>, keyword)
    ELSE xmlang_parse_opening_tag(toks, cursor, <<>>, keyword)

node_at(toks, cursor, keyword) ==
    IF tool = "xmlc"
    THEN (IF keyword = "function" THEN parse_function(toks, cursor, <<>>)
          ELSE IF keyword = "let" THEN parse_let(toks, cursor, <<>>)
          ELSE parse_call(toks, cursor, <<>>))
    ELSE (IF keyword = "function" THEN xmlang_parse_function(toks, cursor, <<>>)
          ELSE IF keyword = "let" THEN xmlang_parse_let(toks, cursor, <<>>)
          ELSE xmlang_parse_call(toks, cursor, <<>>))

\* the properties the claim requires of a tag, in the order the parsers look for them
required_of(keyword) ==
    IF keyword = "function" THEN <<"name">>
    ELSE IF keyword = "let" THEN <<"name", "type">>
    ELSE <<"who">>

has_property(properties, name) == \E i \in 1 .. Len(properties) : properties[i].name.data = name

\* the first required property the tag lacks, "" when it has them all
first_missing(properties, keyword) ==
    LET required == required_of(keyword)
        missing == {i \in 1 .. Len(required) : ~has_property(properties, required[i])}
    IN  IF missing = {} THEN ""
        ELSE required[CHOOSE i \in missing : \A j \in missing : i <= j]

requires_message(name) == "requires property '" \o name \o "'"

missing_reports(diags, name) ==
    {i \in 1 .. Len(diags) : diags[i].error = "EXPECTED_TOKEN_MISSING" /\ diags[i].message = requires_message(name)}

\* C14: the parser of a function, let or call whose well-formed opening tag lacks a
\* required property (name for function and let, type for let, who for call) returns an
\* error and no node, having emitted exactly one diagnostic: an EXPECTED_TOKEN_MISSING
\* error on the tag token whose message names the first missing property; such a
\* diagnostic sets the error flag of the parse.
C14_MissingProperty ==
    /\ tokens # Nothing =>
            \A cursor \in 0 .. Len(tokens.tokens) - 1 : \A keyword \in {"function", "let", "call"} :
                is_opening_at(tokens.tokens, cursor, keyword) =>
                    LET o == opening_at(tokens.tokens, cursor, keyword)
                        r == node_at(tokens.tokens, cursor, keyword)
                    IN  (o.st = "ok" /\ first_missing(o.properties, keyword) # "") =>
                            /\ r.st = "err" /\ r.node = NullNode
                            /\ r.diags = <<Diag("error", "EXPECTED_TOKEN_MISSING", <<o.tag>>,
                                                 requires_message(first_missing(o.properties, keyword)))>>
                            /\ o.tag.data = keyword
    /\ (ast # Nothing /\ ast.st \in {"ok", "err"}) =>
            \A name \in {"name", "type", "who"} :
                missing_reports(ast.diags, name) # {} => (ast.hadAnError /\ hadAnError_g /\ ast.st = "err")

\* C14 witness: one parse reported a function without name (its only property being
\* result), a let without name, a let without type and a call without who
C14_MissingSeen ==
    /\ ast # Nothing /\ ast.st = "err"
    /\ \A name \in {"name", "type", "who"} : missing_reports(ast.diags, name) # {}
    /\ \E i \in missing_reports(ast.diags, "name") : ast.diags[i].issues[1].data = "function"
    /\ \E i \in missing_reports(ast.diags, "name") : ast.diags[i].issues[1].data = "let"

\* the name the function tag of the source declares
DeclaredFunctionName == IF source = NameSecond THEN "main" ELSE "f"

position_warnings(diags) == {i \in 1 .. Len(diags) : diags[i].error = "UNEXPECTED_TOKEN_POSITION"}

\* C15: a function tag whose name and result are both present but out of order, with an
\* empty body, parses: the diagnostics are warnings of UNEXPECTED_TOKEN_POSITION only,
\* the error flag stays clear, and the program holds a Function node with the declared
\* name and the result 'none'.
C15_OutOfOrder ==
    (source \in {NameSecond, XNameSecond} /\ runs = 1 /\ ast # Nothing) =>
        /\ ast.st = "ok" /\ ~has_error(ast.diags) /\ ~hadAnError_g
        /\ position_warnings(ast.diags) # {}
        /\ \A i \in 1 .. Len(ast.diags) : i \in position_warnings(ast.diags) /\ ast.diags[i].severity = "warning"
        /\ Len(ast.node.scope) >= 1 /\ ast.node.scope[1].kind = "Function"
        /\ ast.node.scope[1].name = DeclaredFunctionName
        /\ result_of(ast.node.scope[1]) = "none"

missing_returns(diags) == {i \in 1 .. Len(diags) : diags[i].error = "MISSING_RETURN_STATEMENT"}

\* C16: a function whose declared result is not 'none' and whose scope holds no return
\* makes the parse fail: MISSING_RETURN_STATEMENT is emitted on the function tag, the
\* error flag is set, parse returns an error and no Function node is produced.
C16_MissingReturn ==
    (source \in {NoReturn, XNoReturn} /\ runs = 1 /\ ast # Nothing) =>
        /\ ast.st = "err" /\ ast.node = NullNode
        /\ hadAnError_g
        /\ \E i \in missing_returns(ast.diags) :
                ast.diags[i].severity = "error" /\ ast.diags[i].issues[1].data = "function"


\* the property value of the tag, in source order: the tokens after EQUAL
after_equal(ts) ==
    With([src \in {Reverse(ts)} |->
      With([eq \in {CHOOSE i \in 1 .. Len(src) : src[i].type = "EQUAL"} |->
        SubSeq(src, eq + 1, Len(src))])])

\* a quote, a literal and the other quote
mismatched_quotes(ts) ==
    With([v \in {after_equal(ts)} |->
      /\ Len(v) >= 3
      /\ v[1].type \in QuoteKinds /\ v[2].type = "LITERAL"
      /\ v[3].type \in QuoteKinds /\ v[3].type # v[1].type])

\* a quote and a literal that no quote follows
missing_closing_quote(ts) ==
    With([v \in {after_equal(ts)} |->
      /\ Len(v) >= 3
      /\ v[1].type \in QuoteKinds /\ v[2].type = "LITERAL"
      /\ v[3].type \notin QuoteKinds])

token_missing(diags) ==
    \E i \in 1 .. Len(diags) : diags[i].severity = "error" /\ diags[i].error = "EXPECTED_TOKEN_MISSING"

\* C17: a property value whose quotes do not match, or whose closing quote is
\* missing, makes parse_opening_tag emit EXPECTED_TOKEN_MISSING and return an
\* error, and the property is not accepted.
C17_QuoteMismatch ==
    (ast # Nothing /\ (mismatched_quotes(tokens.tokens) \/ missing_closing_quote(tokens.tokens))) =>
        /\ ast.st = "err"
        /\ token_missing(ast.diags)
        /\ ast.properties = <<>>


EmptyPrograms == {EmptyProgram, EmptyProgramLine}

end_of_files(ts) == {i \in 1 .. Len(ts) : ts[i].type = "END_OF_FILE"}

\* C19: for every input file, an empty one included, the sequence tokenize
\* returns holds exactly one END_OF_FILE token, at index 0 of the reversed
\* vector (the last token in source order), with column 0 and depth 0.
C19_EndOfFile ==
    tokens # Nothing =>
        /\ end_of_files(tokens.tokens) = {1}
        /\ tokens.tokens[1].column = 0
        /\ tokens.tokens[1].depth = 0

\* C19 witness: the empty file was tokenized, and so was a file of several lines
C19_Tokenized ==
    /\ pc = "lexed"
    /\ \/ source = EmptyFile /\ Len(tokens.tokens) = 1
       \/ source = XHelloWorld /\ Len(tokens.tokens) > 10 /\ runs = 2


\* C20: parse terminates on every finite token sequence: an iteration of a scope
\* loop in which the child parser returns an error and synchronize is called
\* strictly decreases the cursor, also when the failing child is among the last
\* three tokens of the stream.
C20_ParseTerminates ==
    ast # Nothing => ast.st # "diverge"


\* C21: during parse the cursor never increases: every parser step (advance,
\* conditional advance, synchronize, every node parser on success or on error)
\* leaves the cursor equal to or lower than before; a conditional advance that
\* does not match, and expect and peek, leave it unchanged.
C21_CursorNeverIncreases ==
    [][ /\ parseCursor' <= parseCursor
        /\ (ast'.op = "expect" => parseCursor' = parseCursor)
        /\ (ast'.op = "advance_if" /\ ~ast'.matched => parseCursor' = parseCursor)
        /\ (ast'.op = "advance_if" /\ ast'.matched => parseCursor' = parseCursor - 1)
        /\ (ast'.op = "advance" => parseCursor' = parseCursor - 1) ]_vars

\* C21 witness: a node parser failed after parser steps had moved the cursor
C21_Stepped ==
    /\ ast # Nothing /\ ast.op \in NodeParsers /\ ast.st = "err"
    /\ parseCursor > 0 /\ parseCursor < Len(tokens.tokens) - 3


\* C22: every token index the parser reads, the cursor and cursor - distance of
\* every peek, stays within 0 .. number of tokens - 1, also when the source
\* ends right after an opening tag.
C22_ReadsInRange ==
    ast # Nothing => ast.st # "range"


\* what parse_program returns for the tokens at hand, diagnostics and node
program_parsed ==
    IF tool = "xmlc" THEN parse_program(tokens.tokens, Len(tokens.tokens) - 1, <<>>)
    ELSE xmlang_parse_program(tokens.tokens, Len(tokens.tokens) - 1, <<>>)

errors_of(diags) == {i \in 1 .. Len(diags) : diags[i].severity = "error"}

\* sources whose function holds erroneous children and well-formed lets, each on a line of its own
RecoverySources == {TwoErrors, XTwoErrors, OneLineCall, XOneLineCall}

\* the cursors of the opening tags of the lets and calls that fail to parse
erroneous_children(toks) ==
    {c \in 1 .. Len(toks) - 1 : \E keyword \in {"let", "call"} :
        is_opening_at(toks, c, keyword) /\ node_at(toks, c, keyword).st = "err"}

\* the cursors of the opening tags of the lets that parse
well_formed_lets(toks) ==
    {c \in 1 .. Len(toks) - 1 : is_opening_at(toks, c, "let") /\ node_at(toks, c, "let").st = "ok"}

\* the nodes of the scopes of the functions of a program
children_of(program) ==
    IF program = NullNode THEN {}
    ELSE UNION {{program.scope[i].scope[j] : j \in 1 .. Len(program.scope[i].scope)} :
                    i \in {k \in 1 .. Len(program.scope) : program.scope[k].kind = "Function"}}

\* C23: error recovery keeps parsing: when a child of a scope fails to parse,
\* the scope's loop resynchronizes and still parses every later well-formed
\* sibling, so that every erroneous sibling has its own diagnostic in the same
\* run and the well-formed siblings between or after them are in the scope.
C23_RecoveryKeepsParsing ==
    (source \in RecoverySources /\ ast # Nothing) =>
        With([toks \in {tokens.tokens} |->
          With([p \in {program_parsed} |->
            /\ p.st = "ok"
            /\ \A c \in erroneous_children(toks) :
                  \E i \in errors_of(p.diags) : p.diags[i].issues[1].line = peek(toks, c, 1).line
            /\ \A c \in well_formed_lets(toks) :
                  \E n \in children_of(p.node) : n.kind = "Let" /\ n.token = peek(toks, c, 1)])])


\* the depth the leading spaces of a line stand for
leading_depth(line) ==
    With([space \in {space_run(line, 0)} |-> IF space % 4 = 0 THEN space \div 4 ELSE 0])

\* C24: all tokens emitted from one source line carry the same depth: the length
\* of the line's leading run of spaces divided by 4 when that length is a
\* multiple of 4, and 0 otherwise; runs of spaces further along the line do not
\* change the depth of any token.
C24_LineDepth ==
    tokens # Nothing =>
        \A i \in 2 .. Len(tokens.tokens) :
            tokens.tokens[i].depth = leading_depth(next_line(source)[tokens.tokens[i].line + 1])


\* C25: while tokenizing any line, every character index the lexer reads is
\* strictly less than the line's length, so that no out-of-range access occurs,
\* also for lines that end with '>' or '"'.
C25_LexerReadsInRange ==
    tokens # Nothing => ~tokens.threw


\* the slots n of the lines  <prefix>[n]  of a text
slots_of(code, prefix) ==
    {substr_n(line, Len(prefix) + 1, Len(line) - Len(prefix) - 2) :
        line \in {l \in {next_line(code)[i] : i \in 1 .. Len(next_line(code))} : starts_with(l, prefix \o "[")}}

\* the lines of a text that are instructions
instructions_of(code) ==
    SelectSeq(next_line(code), LAMBDA l : \E op \in {"push", "store", "load", "call"} : starts_with(l, op \o " "))

\* C26: within a function, the slot of the 'store scope[i]' emitted for 'let v'
\* equals the slot of the 'load scope[j]' emitted for an argument '${v}',
\* whatever statements precede the let and whatever parameters the function
\* declares; for let x = 7 then println ${x} the code is push 7, store scope[0],
\* load scope[0], call println.
C26_SlotsAgree ==
    (source \in {LetNumber, LetAfterCall, LetWithParameter} /\ text # Nothing /\ text.st = "ok") =>
        /\ slots_of(text.code, "store scope") = slots_of(text.code, "load scope")
        /\ source = LetNumber =>
              SubSeq(instructions_of(text.code), 1, 4) = <<"push 7", "store scope[0]", "load scope[0]", "call println">>

\* the byte positions at which the entries of an assembled data segment begin
RECURSIVE entry_starts(_, _)
entry_starts(bytes, pos) ==
    IF pos + 4 > Len(bytes) THEN {}
    ELSE {pos} \cup entry_starts(bytes, pos + 4 + bytes[pos + 1] * 16777216 + bytes[pos + 2] * 65536
                                                  + bytes[pos + 3] * 256 + bytes[pos + 4])

\* C27: within one compilation, the offset recorded in dataSegmentOffsets for an
\* entry is the byte position of that entry's 4-byte length in the assembled
\* data segment, that is the sum of 4 plus the stored length over the entries
\* before it, also when an earlier entry held an interpolation that was
\* rewritten to {}.
C27_OffsetsAreEntryStarts ==
    (runs = 1 /\ text # Nothing /\ text.st = "ok") =>
        With([data \in {assemble_data_segment(data_segment_of(text.code))} |->
          data.st = "ok" =>
            \A key \in DOMAIN compiler_g.dataSegmentOffsets_g :
                compiler_g.dataSegmentOffsets_g[key] \in entry_starts(data.bytes, 0)])

\* programs whose values are integer literals and bare interpolations only
NumberSources == {LetNumber, ArgNumber, ReturnNumber}

\* C28: integer literals and bare ${name} interpolations add no entry to the
\* data segment and do not advance the data byte counter, as the value of a let,
\* of an arg, or of a return in a function whose result is not 'none'.
C28_NumbersAddNoData ==
    (runs = 1 /\ source \in NumberSources /\ text # Nothing) =>
        /\ compiler_g.dataSegmentBytes = 0
        /\ DOMAIN compiler_g.dataSegmentOffsets_g = {}
        /\ text.st = "ok" => data_segment_of(text.code) = ""

\* n as four bytes, the highest first
big_endian(n) == <<n \div 16777216, (n \div 65536) % 256, (n \div 256) % 256, n % 256>>

\* C29: for every offset n >= 0 that fits in 32 bits, also n >= 10, store dst[n]
\* and load src[n] assemble to 6 bytes: the shifted opcode, the tag of the
\* destination or source, then n as four big-endian bytes; push n assembles to
\* 5 bytes that end in n as four big-endian bytes.
C29_OffsetBytes ==
    image # Nothing =>
        \A n \in Offsets :
            /\ source = instruction_text("push", "", n) =>
                  image = [st |-> "ok", program |-> <<Opcode.PUSH * 8>> \o big_endian(n)]
            /\ \A place \in Places.load : source = instruction_text("load", place, n) =>
                  image = [st |-> "ok", program |-> <<Opcode.LOAD * 8,
                              IF place = ".data" THEN 0 ELSE IF place = "scope" THEN 1 ELSE 2>> \o big_endian(n)]
            /\ \A place \in Places.store : source = instruction_text("store", place, n) =>
                  image = [st |-> "ok", program |-> <<Opcode.STORE * 8, IF place = "scope" THEN 0 ELSE 1>> \o big_endian(n)]

\* the number of bytes an instruction of the code segment stands for
instruction_size(line) ==
    With([opcode \in {before_first(line, " ")} |->
      IF opcode \in {"pop", "ret"} THEN 1 ELSE IF opcode = "call" THEN 2 ELSE IF opcode = "push" THEN 5 ELSE 6])

is_header(line) == starts_with(line, "function ") \/ line = "entrypoint"

\* the byte offset at which the block of every function of a code segment starts:
\* the bytes of all instructions before its header
RECURSIVE block_starts(_, _, _, _)
block_starts(lines, i, bytes, starts) ==
    IF i > Len(lines) THEN starts
    ELSE IF lines[i] \in {"", ".code"} THEN block_starts(lines, i + 1, bytes, starts)
    ELSE IF is_header(lines[i])
    THEN block_starts(lines, i + 1, bytes,
                      IF lines[i] = "entrypoint" THEN starts
                      ELSE starts @@ (substr(lines[i], Len("function ")) :> bytes))
    ELSE block_starts(lines, i + 1, bytes + instruction_size(lines[i]), starts)

\* the bytes of a code segment when every call of a declared function is
\* extrinsic with the offset of its block, and a call of print or println intrinsic
RECURSIVE code_with_calls(_, _, _)
code_with_calls(lines, i, starts) ==
    IF i > Len(lines) THEN <<>>
    ELSE IF lines[i] \in {"", ".code"} \/ is_header(lines[i]) THEN code_with_calls(lines, i + 1, starts)
    ELSE With([callee \in {substr(lines[i], after_first(lines[i], " "))} |->
           (IF before_first(lines[i], " ") # "call" THEN assemble_instruction(EmptyMap, lines[i]).bytes
            ELSE IF callee \in DOMAIN starts THEN <<Opcode.CALL * 8 + CallMode.EXTRINSIC, starts[callee]>>
            ELSE IF callee = "print" THEN <<Opcode.CALL * 8 + CallMode.INTRINSIC, 0>>
            ELSE IF callee = "println" THEN <<Opcode.CALL * 8 + CallMode.INTRINSIC, 1>>
            ELSE <<>>)
           \o code_with_calls(lines, i + 1, starts)])

CallSources == {HelloWorld, CallEarlier, CallLater, UserPrintln}

\* C30: every call of a function declared in the program, whether its block
\* stands before or after the calling block, assembles to CALL<<3 | EXTRINSIC
\* and a byte that is the code-segment offset at which the callee's block
\* starts; a call of print or println assembles to CALL<<3 | INTRINSIC and
\* ordinal 0 or 1.
C30_CallBytes ==
    (runs = 1 /\ source \in CallSources /\ image # Nothing) =>
        With([lines \in {next_line(code_segment_of(text.code))} |->
          With([expected \in {code_with_calls(lines, 1, block_starts(lines, 1, 0, EmptyMap))} |->
            /\ image.st = "ok"
            /\ SubSeq(image.program, Len(image.program) - Len(expected) + 1, Len(image.program)) = expected])])

====
